---- MODULE Spec2Model ----
(***************************************************************************)
(* Memory consistency engine of Philia_server: embedding provider,         *)
(* deduplication gate (memory_dedup_service), conflict resolver            *)
(* (memory_conflict_service) and the chat fact-extraction pipeline         *)
(* (chat/nodes.py extract_facts), run by concurrent requests over one      *)
(* shared target_memory table.                                             *)
(*                                                                         *)
(* Text is a sequence of characters (one-character strings; the Chinese    *)
(* characters of the adjudicator protocol are written by their pinyin      *)
(* names "shi", "fou", "bu").  A vector is kept sparsely: its dimension    *)
(* and its non-zero components.  Similarities are exact rationals          *)
(* <<numerator, denominator>>.                                             *)
(***************************************************************************)
EXTENDS Integers, Sequences, FiniteSets, TLC

VARIABLES store, pc, loc

vars == <<store, pc, loc>>

-----------------------------------------------------------------------------
(* Bounds of the model *)

MaxStore == 3

\* the largest number of records of the runs that exercise the resolver's LIMIT
MaxDetectStore == 4

Procs == {1, 2}

Owners == {1, 2}

-----------------------------------------------------------------------------
(* Program constants *)

EMBEDDING_DIMENSION == 1024

COLUMN_DIMENSION == 2048

ZERO_CHECK_PREFIX == 10

CANDIDATE_LIMIT == 3

SIMILARITY_THRESHOLD == <<92, 100>>

CONFLICT_SIMILARITY_THRESHOLD == <<75, 100>>

-----------------------------------------------------------------------------
(* Text *)

Whitespace == {" ", "\t", "\n"}

NULL_CONTENT == <<"<NULL>">>

TEA == <<"t", "e", "a">>

NO_TEA == <<"n", "o", " ", "t", "e", "a">>

TEA_ICED == <<"i", "c", "e", "d", " ", "t", "e", "a">>

\* a fact whose embedding has similarity exactly 0.92 to that of TEA
TEA_MILD == <<"m", "i", "l", "d", " ", "t", "e", "a">>

EMPTY_TEXT == << >>

BLANK_TEXT == <<" ">>

FactTexts == {TEA, NO_TEA, TEA_ICED}

BlankTexts == {EMPTY_TEXT, BLANK_TEXT}

Contents == FactTexts \cup BlankTexts

\* Python: `not text or not text.strip()`
IsBlank(text) ==
    \/ text = NULL_CONTENT
    \/ \A i \in 1..Len(text) : text[i] \in Whitespace

\* str.strip(): drop leading and trailing whitespace
RECURSIVE LStrip(_)
LStrip(s) ==
    IF s # << >> /\ Head(s) \in Whitespace THEN LStrip(Tail(s)) ELSE s

RECURSIVE RStrip(_)
RStrip(s) ==
    IF s # << >> /\ s[Len(s)] \in Whitespace
    THEN RStrip(SubSeq(s, 1, Len(s) - 1)) ELSE s

Strip(s) == RStrip(LStrip(s))

\* str.lower(): only ASCII letters of the alphabet in use have a lower case
LowerChar(c) ==
    CASE c = "S" -> "s"
      [] c = "H" -> "h"
      [] c = "I" -> "i"
      [] c = "T" -> "t"
      [] c = "E" -> "e"
      [] c = "A" -> "a"
      [] OTHER -> c

Lower(s) == [i \in 1..Len(s) |-> LowerChar(s[i])]

Min(a, b) == IF a <= b THEN a ELSE b

\* s[:n]
Prefix(s, n) == SubSeq(s, 1, Min(n, Len(s)))

\* Python: `c in s` for a single character c
CharIn(c, s) == \E i \in 1..Len(s) : s[i] = c

-----------------------------------------------------------------------------
(* Vectors *)

NULL_EMBEDDING == [dim |-> 0, nz |-> << >>]

Vec(d, f) == [dim |-> d, nz |-> f]

Comp(e, i) == IF i \in DOMAIN e.nz THEN e.nz[i] ELSE 0

\* [0.0] * EMBEDDING_DIMENSION
ZeroVector == Vec(EMBEDDING_DIMENSION, << >>)

RECURSIVE SumOver(_, _, _)
SumOver(S, a, b) ==
    IF S = {} THEN 0
    ELSE LET i == CHOOSE x \in S : TRUE
         IN  a.nz[i] * b.nz[i] + SumOver(S \ {i}, a, b)

Dot(a, b) == SumOver(DOMAIN a.nz \cap DOMAIN b.nz, a, b)

NormSq(a) == Dot(a, a)

Abs(x) == IF x < 0 THEN -x ELSE x

RECURSIVE AbsSum(_, _)
AbsSum(S, a) ==
    IF S = {} THEN 0
    ELSE LET i == CHOOSE x \in S : TRUE
         IN  Abs(a.nz[i]) + AbsSum(S \ {i}, a)

\* the Euclidean norm (the vectors in use have integer norms)
Norm(a) == CHOOSE n \in 0..AbsSum(DOMAIN a.nz, a) : n * n = NormSq(a)

\* 1 - (embedding <=> q): the cosine similarity, as an exact rational
Similarity(a, b) == <<Dot(a, b), Norm(a) * Norm(b)>>

RatGE(r, s) == r[1] * s[2] >= s[1] * r[2]

\* The remote embedding model: one fixed vector of the column's dimension per
\* text (the service is a function of its input).
ProviderVector(text) ==
    CASE text = TEA      -> Vec(COLUMN_DIMENSION, (1 :> 5))
      [] text = NO_TEA   -> Vec(COLUMN_DIMENSION, (1 :> 4 @@ 2 :> 3))
      [] text = TEA_ICED -> Vec(COLUMN_DIMENSION, (1 :> 5 @@ 2 :> 12))
      [] text = TEA_MILD -> Vec(COLUMN_DIMENSION,
                                (1 :> 23 @@ 2 :> 8 @@ 3 :> 4 @@ 4 :> 4))
      [] OTHER           -> Vec(COLUMN_DIMENSION, (COLUMN_DIMENSION :> 1))

\* faulty variant: degrades to a zero vector of the column's dimension
get_embedding_ColumnZero(text, remoteOK) ==
    IF IsBlank(text) THEN ZeroVector
    ELSE IF remoteOK THEN ProviderVector(text)
    ELSE Vec(COLUMN_DIMENSION, << >>)

\* EmbeddingService.get_embedding: zero vector for blank text and on a failed
\* remote call
get_embedding(text, remoteOK) ==
    IF IsBlank(text) THEN ZeroVector
    ELSE IF remoteOK THEN ProviderVector(text)
    ELSE ZeroVector

\* faulty variant: tests the vector for emptiness (`if not embedding`)
IsZeroVector_EmptyOnly(e) == e.dim = 0

\* all(v == 0.0 for v in embedding[:10])
IsZeroVector(e) ==
    \A i \in 1..Min(ZERO_CHECK_PREFIX, e.dim) : Comp(e, i) = 0


-----------------------------------------------------------------------------
(* The target_memory table: store[i] is the committed row with id i *)

NO_ID == 0

NONE_SIM == <<-2, 1>>

NO_HASH == << >>

\* caused and overlapped record the history of the row: whether the request
\* that created it performed the active -> outdated transition of the row it
\* references, and whether that request ran while another was in flight
Row(owner, content, embedding, content_hash, replaced, caused, overlapped) ==
    [ target_id          |-> owner,
      content            |-> content,
      embedding          |-> embedding,
      content_hash       |-> content_hash,
      status             |-> "active",
      replaced_memory_id |-> replaced,
      caused             |-> caused,
      overlapped         |-> overlapped ]

Range(f) == {f[i] : i \in DOMAIN f}

\* faulty variant: the query without `AND status = 'active'`
Searchable_AnyStatus(s, owner) ==
    {i \in DOMAIN s :
        /\ s[i].target_id = owner
        /\ s[i].embedding # NULL_EMBEDDING
        /\ s[i].content # NULL_CONTENT}

\* faulty variant: the query without `WHERE target_id = :target_id`
Searchable_AnyOwner(s, owner) ==
    {i \in DOMAIN s :
        /\ s[i].embedding # NULL_EMBEDDING
        /\ s[i].content # NULL_CONTENT
        /\ s[i].status = "active"}

\* WHERE target_id = :target_id AND embedding IS NOT NULL
\*   AND content IS NOT NULL AND status = 'active'
Searchable(s, owner) ==
    {i \in DOMAIN s :
        /\ s[i].target_id = owner
        /\ s[i].embedding # NULL_EMBEDDING
        /\ s[i].content # NULL_CONTENT
        /\ s[i].status = "active"}

SimTo(s, i, q) == Similarity(s[i].embedding, q)

\* ORDER BY embedding <=> q LIMIT 1: any row of greatest similarity
NearestRows(s, owner, q) ==
    {i \in Searchable(s, owner) :
        \A j \in Searchable(s, owner) : RatGE(SimTo(s, i, q), SimTo(s, j, q))}

\* ... AND similarity >= :threshold ORDER BY embedding <=> q LIMIT 3:
\* every ordering the database may return (ties in any order)
CandidateLists(s, owner, q, threshold) ==
    LET sim == [i \in Searchable(s, owner) |-> SimTo(s, i, q)]
        S   == {i \in DOMAIN sim : RatGE(sim[i], threshold)}
        k   == Min(CANDIDATE_LIMIT, Cardinality(S))
    IN  {c \in [1..k -> S] :
            /\ \A m, n \in 1..k : m < n =>
                  /\ c[m] # c[n]
                  /\ RatGE(sim[c[m]], sim[c[n]])
            /\ \A j \in S \ Range(c) : \A m \in 1..k :
                  RatGE(sim[c[m]], sim[j])}

-----------------------------------------------------------------------------
(* Deduplication gate *)

GateResult(dup, id, sim, row, queried) ==
    [ is_duplicate |-> dup, memory_id |-> id, similarity |-> sim,
      row_id |-> row, queried |-> queried ]

\* faulty variant: the threshold applied to the cosine distance
\* (embedding <=> q) instead of the similarity
check_duplicate_memory_Distance(s, owner, content, embedding, dbOK) ==
    IF IsBlank(content) \/ IsZeroVector(embedding)
    THEN {GateResult(FALSE, NO_ID, NONE_SIM, NO_ID, FALSE)}
    ELSE IF ~dbOK \/ Searchable(s, owner) = {}
    THEN {GateResult(FALSE, NO_ID, NONE_SIM, NO_ID, TRUE)}
    ELSE {LET sim  == SimTo(s, i, embedding)
              dist == <<sim[2] - sim[1], sim[2]>>
          IN  IF RatGE(dist, SIMILARITY_THRESHOLD)
              THEN GateResult(TRUE, i, sim, i, TRUE)
              ELSE GateResult(FALSE, NO_ID, sim, i, TRUE)
          : i \in NearestRows(s, owner, embedding)}

\* faulty variant: a failed search reported as a duplicate (fail-closed)
check_duplicate_memory_FailClosed(s, owner, content, embedding, dbOK) ==
    IF IsBlank(content) \/ IsZeroVector(embedding)
    THEN {GateResult(FALSE, NO_ID, NONE_SIM, NO_ID, FALSE)}
    ELSE IF ~dbOK
    THEN {GateResult(TRUE, NO_ID, NONE_SIM, NO_ID, TRUE)}
    ELSE IF Searchable(s, owner) = {}
    THEN {GateResult(FALSE, NO_ID, NONE_SIM, NO_ID, TRUE)}
    ELSE {IF RatGE(SimTo(s, i, embedding), SIMILARITY_THRESHOLD)
          THEN GateResult(TRUE, i, SimTo(s, i, embedding), i, TRUE)
          ELSE GateResult(FALSE, NO_ID, SimTo(s, i, embedding), i, TRUE)
          : i \in NearestRows(s, owner, embedding)}

\* faulty variant: the threshold is exclusive (`similarity > threshold`)
check_duplicate_memory_Exclusive(s, owner, content, embedding, dbOK) ==
    IF IsBlank(content) \/ IsZeroVector(embedding)
    THEN {GateResult(FALSE, NO_ID, NONE_SIM, NO_ID, FALSE)}
    ELSE IF ~dbOK \/ Searchable(s, owner) = {}
    THEN {GateResult(FALSE, NO_ID, NONE_SIM, NO_ID, TRUE)}
    ELSE {IF ~RatGE(SIMILARITY_THRESHOLD, SimTo(s, i, embedding))
          THEN GateResult(TRUE, i, SimTo(s, i, embedding), i, TRUE)
          ELSE GateResult(FALSE, NO_ID, SimTo(s, i, embedding), i, TRUE)
          : i \in NearestRows(s, owner, embedding)}

\* faulty variant: the score is dropped when the verdict is not-duplicate
check_duplicate_memory_NoScore(s, owner, content, embedding, dbOK) ==
    IF IsBlank(content) \/ IsZeroVector(embedding)
    THEN {GateResult(FALSE, NO_ID, NONE_SIM, NO_ID, FALSE)}
    ELSE IF ~dbOK \/ Searchable(s, owner) = {}
    THEN {GateResult(FALSE, NO_ID, NONE_SIM, NO_ID, TRUE)}
    ELSE {IF RatGE(SimTo(s, i, embedding), SIMILARITY_THRESHOLD)
          THEN GateResult(TRUE, i, SimTo(s, i, embedding), i, TRUE)
          ELSE GateResult(FALSE, NO_ID, NONE_SIM, i, TRUE)
          : i \in NearestRows(s, owner, embedding)}

\* check_duplicate_memory: the set of results the call may return; dbOK is
\* whether db.execute succeeds
check_duplicate_memory(s, owner, content, embedding, dbOK) ==
    IF IsBlank(content)
    THEN {GateResult(FALSE, NO_ID, NONE_SIM, NO_ID, FALSE)}
    ELSE IF IsZeroVector(embedding)
    THEN {GateResult(FALSE, NO_ID, NONE_SIM, NO_ID, FALSE)}
    ELSE IF ~dbOK
    THEN {GateResult(FALSE, NO_ID, NONE_SIM, NO_ID, TRUE)}
    ELSE IF Searchable(s, owner) = {}
    THEN {GateResult(FALSE, NO_ID, NONE_SIM, NO_ID, TRUE)}
    ELSE {IF RatGE(SimTo(s, i, embedding), SIMILARITY_THRESHOLD)
          THEN GateResult(TRUE, i, SimTo(s, i, embedding), i, TRUE)
          ELSE GateResult(FALSE, NO_ID, SimTo(s, i, embedding), i, TRUE)
          : i \in NearestRows(s, owner, embedding)}

-----------------------------------------------------------------------------
(* Conflict resolver *)

\* What the adjudicating model sends back: a text and what the text means,
\* or a failed call.
Response(ok, text, yes) == [ok |-> ok, text |-> text, means_yes |-> yes]

R_YES == Response(TRUE, <<"shi">>, TRUE)

R_YES_PADDED == Response(TRUE, <<" ", "shi", "\n">>, TRUE)

R_NO == Response(TRUE, <<"fou">>, FALSE)

R_NOT == Response(TRUE, <<"bu", "shi">>, FALSE)

R_ERROR == Response(FALSE, << >>, FALSE)

Responses == {R_YES, R_YES_PADDED, R_NO, R_NOT, R_ERROR}

\* _check_conflict_with_llm:
\*   answer = response.strip().lower()
\*   return answer.startswith(shi) or shi in answer[:5]
check_conflict_with_llm(resp) ==
    IF ~resp.ok THEN FALSE
    ELSE LET answer == Lower(Strip(resp.text))
         IN  \/ (answer # << >> /\ answer[1] = "shi")
             \/ CharIn("shi", Prefix(answer, 5))

\* faulty variant: the loop does not return at the first confirmed candidate
\* and ends up with the last one
FirstConflict_Last(n, resps) ==
    IF \E m \in 1..n : check_conflict_with_llm(resps[m])
    THEN CHOOSE m \in 1..n :
            /\ check_conflict_with_llm(resps[m])
            /\ \A l \in (m + 1)..n : ~check_conflict_with_llm(resps[l])
    ELSE 0

\* index of the first candidate the adjudicator is taken to confirm, or 0
FirstConflict(n, resps) ==
    IF \E m \in 1..n : check_conflict_with_llm(resps[m])
    THEN CHOOSE m \in 1..n :
            /\ check_conflict_with_llm(resps[m])
            /\ \A l \in 1..(m - 1) : ~check_conflict_with_llm(resps[l])
    ELSE 0

DetectResult(conflict, id, sim, cands, asked, queried) ==
    [ is_conflict |-> conflict, memory_id |-> id, similarity |-> sim,
      candidates |-> cands, asked |-> asked, queried |-> queried ]

NoConflict(cands, asked, queried) ==
    DetectResult(FALSE, NO_ID, NONE_SIM, cands, asked, queried)

\* detect_conflicting_memory: resps[m] is the adjudicator's response for the
\* m-th candidate, should it be asked
detect_conflicting_memory(s, owner, new_content, embedding, dbOK, resps) ==
    IF IsBlank(new_content) THEN {NoConflict(<< >>, << >>, FALSE)}
    ELSE IF IsZeroVector(embedding) THEN {NoConflict(<< >>, << >>, FALSE)}
    ELSE IF ~dbOK THEN {NoConflict(<< >>, << >>, TRUE)}
    ELSE {LET n   == Len(c)
              hit == FirstConflict(n, resps)
          IN  IF n = 0 THEN NoConflict(c, << >>, TRUE)
              ELSE IF hit = 0
              THEN NoConflict(c, [m \in 1..n |-> resps[m]], TRUE)
              ELSE DetectResult(TRUE, c[hit], SimTo(s, c[hit], embedding), c,
                                [m \in 1..hit |-> resps[m]], TRUE)
          : c \in CandidateLists(s, owner, embedding,
                                 CONFLICT_SIMILARITY_THRESHOLD)}

\* faulty variant: writes a status the rest of the code does not know
mark_memory_as_outdated_WrongStatus(s, id, ok) ==
    IF ok THEN [s EXCEPT ![id].status = "inactive"] ELSE s

\* mark_memory_as_outdated: UPDATE ... SET status = 'outdated' WHERE id = :id
\* and commit; on an exception rollback
mark_memory_as_outdated(s, id, ok) ==
    IF ok THEN [s EXCEPT ![id].status = "outdated"] ELSE s


-----------------------------------------------------------------------------
(* Relevance ranker: retrieve_memory and its keyword fallback *)

RECURSIVE GCD(_, _)
GCD(a, b) == IF b = 0 THEN a ELSE GCD(b, a % b)

\* a rational in lowest terms
Reduced(r) ==
    LET g == GCD(Abs(r[1]), Abs(r[2]))
    IN  IF g = 0 THEN r ELSE <<r[1] \div g, r[2] \div g>>

RatAdd(r, q) == Reduced(<<r[1] * q[2] + q[1] * r[2], r[2] * q[2]>>)

RatMul(r, q) == Reduced(<<r[1] * q[1], r[2] * q[2]>>)

SIMILARITY_WEIGHT == <<8, 10>>

TIME_WEIGHT == <<2, 10>>

CORPUS_HIT_SCORE == <<3, 10>>

CORPUS_BASE_SCORE == <<5, 100>>

NO_HIT_FACTOR == <<1, 10>>

\* RAGConfig as the callers build it: `enabled`, `max_memories` and
\* `min_relevance_score` from the chatbot's rag_settings, the defaults for
\* the rest
RAGConfigWith(enabled, max_memories, min_relevance_score) ==
    [ enabled             |-> enabled,
      max_memories        |-> max_memories,
      time_decay_factor   |-> <<1, 10>>,
      min_relevance_score |-> min_relevance_score,
      min_similarity      |-> <<5, 10>> ]

\* RAGConfig with the default min_relevance_score of the class
RAGConfig(enabled, max_memories) ==
    RAGConfigWith(enabled, max_memories, <<35, 100>>)

\* str.split(): the maximal runs of non-whitespace characters
Tokens(text) ==
    {SubSeq(text, i, j) : <<i, j>> \in
        {ij \in (1..Len(text)) \X (1..Len(text)) :
            /\ ij[1] <= ij[2]
            /\ \A k \in ij[1]..ij[2] : text[k] \notin Whitespace
            /\ ij[1] = 1 \/ text[ij[1] - 1] \in Whitespace
            /\ ij[2] = Len(text) \/ text[ij[2] + 1] \in Whitespace}}

\* Python: `kw in content` for strings
Contains(kw, content) ==
    \E i \in 1..(Len(content) - Len(kw) + 1) :
        SubSeq(content, i, i + Len(kw) - 1) = kw

\* sum(1 for kw in query_keywords if kw in content_lower)
Hits(user_message, content) ==
    Cardinality({kw \in Tokens(Lower(user_message)) :
                    Contains(kw, Lower(content))})

\* 1.0 / (1.0 + days_ago * time_decay_factor)
TimeFactor(days_ago, decay) == <<decay[2], decay[2] + days_ago * decay[1]>>

\* similarity * 0.8 + time_factor * 0.2
FinalScore(similarity, days_ago, config) ==
    RatAdd(RatMul(similarity, SIMILARITY_WEIGHT),
           RatMul(TimeFactor(days_ago, config.time_decay_factor), TIME_WEIGHT))

\* faulty variant: every record is scored as one without a hit
KeywordScore_NoHit(hits, days_ago, config) ==
    RatMul(TimeFactor(days_ago, config.time_decay_factor), NO_HIT_FACTOR)

\* hits * time_factor if hits > 0 else time_factor * 0.1
KeywordScore(hits, days_ago, config) ==
    IF hits > 0
    THEN RatMul(<<hits, 1>>, TimeFactor(days_ago, config.time_decay_factor))
    ELSE RatMul(TimeFactor(days_ago, config.time_decay_factor), NO_HIT_FACTOR)

\* hits * 0.3 if hits > 0 else 0.05
CorpusScore(hits) ==
    IF hits > 0 THEN RatMul(<<hits, 1>>, CORPUS_HIT_SCORE)
    ELSE CORPUS_BASE_SCORE

Scored(id, content, source_type, score) ==
    [ id |-> id, content |-> content, source_type |-> source_type,
      relevance_score |-> score ]

\* the sequences that list every element of S once
Perms(S) ==
    {f \in [1..Cardinality(S) -> S] :
        \A m, n \in DOMAIN f : m # n => f[m] # f[n]}

\* ORDER BY embedding <=> q LIMIT :limit over the searchable rows of the owner
VectorRows(s, owner, q, limit) ==
    {Prefix(f, limit) : f \in
        {g \in Perms(Searchable(s, owner)) :
            \A m, n \in DOMAIN g : m < n =>
                RatGE(SimTo(s, g[m], q), SimTo(s, g[n], q))}}

\* WHERE target_id = :target_id AND content IS NOT NULL AND status = 'active'
KeywordSearchable(s, owner) ==
    {i \in DOMAIN s :
        /\ s[i].target_id = owner
        /\ s[i].content # NULL_CONTENT
        /\ s[i].status = "active"}

\* ORDER BY happened_at DESC LIMIT :limit
KeywordRows(s, owner, days_ago, limit) ==
    {Prefix(f, limit) : f \in
        {g \in Perms(KeywordSearchable(s, owner)) :
            \A m, n \in DOMAIN g : m < n => days_ago[g[m]] <= days_ago[g[n]]}}

\* faulty variant: keeps a candidate only above min_relevance_score
RECURSIVE ScoreVectorRows_Exclusive(_, _, _, _, _)
ScoreVectorRows_Exclusive(s, rows, q, days_ago, config) ==
    IF rows = << >> THEN << >>
    ELSE LET i     == Head(rows)
             sim   == SimTo(s, i, q)
             final == FinalScore(sim, days_ago[i], config)
             rest  == ScoreVectorRows_Exclusive(s, Tail(rows), q, days_ago,
                                                config)
         IN  IF ~RatGE(sim, config.min_similarity) THEN rest
             ELSE IF ~RatGE(config.min_relevance_score, final)
             THEN <<Scored(i, s[i].content, "memory", final)>> \o rest
             ELSE rest

\* the `for row in rows` loop of retrieve_memory
RECURSIVE ScoreVectorRows(_, _, _, _, _)
ScoreVectorRows(s, rows, q, days_ago, config) ==
    IF rows = << >> THEN << >>
    ELSE LET i     == Head(rows)
             sim   == SimTo(s, i, q)
             final == FinalScore(sim, days_ago[i], config)
             rest  == ScoreVectorRows(s, Tail(rows), q, days_ago, config)
         IN  IF ~RatGE(sim, config.min_similarity) THEN rest
             ELSE IF RatGE(final, config.min_relevance_score)
             THEN <<Scored(i, s[i].content, "memory", final)>> \o rest
             ELSE rest

\* the `for memory in memories` loop of _retrieve_memory_fallback
RECURSIVE ScoreKeywordRows(_, _, _, _, _)
ScoreKeywordRows(s, rows, user_message, days_ago, config) ==
    IF rows = << >> THEN << >>
    ELSE LET i     == Head(rows)
             score == KeywordScore(Hits(user_message, s[i].content),
                                   days_ago[i], config)
             rest  == ScoreKeywordRows(s, Tail(rows), user_message, days_ago,
                                       config)
         IN  IF s[i].content = EMPTY_TEXT THEN rest
             ELSE IF RatGE(score, config.min_relevance_score)
             THEN <<Scored(i, s[i].content, "memory", score)>> \o rest
             ELSE rest

\* faulty variant: keeps every entry whatever its score
RECURSIVE ScoreCorpus_KeepAll(_, _, _)
ScoreCorpus_KeepAll(corpus, user_message, config) ==
    IF corpus = << >> THEN << >>
    ELSE LET content == Head(corpus)
             score   == CorpusScore(Hits(user_message, content))
             rest    == ScoreCorpus_KeepAll(Tail(corpus), user_message, config)
         IN  IF content = EMPTY_TEXT THEN rest
             ELSE <<Scored(NO_ID, content, "corpus", score)>> \o rest

\* the `for corpus_item in custom_corpus` loop (both paths)
RECURSIVE ScoreCorpus(_, _, _)
ScoreCorpus(corpus, user_message, config) ==
    IF corpus = << >> THEN << >>
    ELSE LET content == Head(corpus)
             score   == CorpusScore(Hits(user_message, content))
             rest    == ScoreCorpus(Tail(corpus), user_message, config)
         IN  IF content = EMPTY_TEXT THEN rest
             ELSE IF RatGE(score, config.min_relevance_score)
             THEN <<Scored(NO_ID, content, "corpus", score)>> \o rest
             ELSE rest

\* scored_memories.sort(key=lambda x: x[1], reverse=True): stable
RECURSIVE SortByScore(_)
SortByScore(items) ==
    IF items = << >> THEN << >>
    ELSE LET n      == Len(items)
             x      == items[n]
             sorted == SortByScore(SubSeq(items, 1, n - 1))
             k      == Cardinality({m \in DOMAIN sorted :
                          RatGE(sorted[m].relevance_score, x.relevance_score)})
         IN  SubSeq(sorted, 1, k) \o <<x>> \o SubSeq(sorted, k + 1, n - 1)

\* faulty variant: truncates without sorting
TopMemories_Unsorted(items, config) == Prefix(items, config.max_memories)

\* scored_memories[: max_memories] after the sort
TopMemories(items, config) == Prefix(SortByScore(items), config.max_memories)

\* what a ranker returns on the path it took, with its locals: the rows it
\* fetched and scored_memories before the sort
Retrieved(path, items) ==
    [path |-> path, items |-> items, rows |-> << >>, scored |-> << >>]

Ranked(path, rows, scored, config) ==
    [ path |-> path, items |-> TopMemories(scored, config),
      rows |-> rows, scored |-> scored ]

\* the operator <=> raises on vectors of different dimensions
DimensionMismatch(s, owner, q) ==
    \E i \in Searchable(s, owner) : s[i].embedding.dim # q.dim

\* _retrieve_memory_fallback: every list it may return
retrieve_memory_fallback(s, owner, user_message, config, corpus, days_ago, dbOK) ==
    IF ~dbOK THEN {Retrieved("failed", << >>)}
    ELSE {Ranked("keyword", rows,
                 ScoreKeywordRows(s, rows, user_message, days_ago, config)
                 \o ScoreCorpus(corpus, user_message, config),
                 config)
          : rows \in KeywordRows(s, owner, days_ago, config.max_memories * 3)}

\* retrieve_memory: every list it may return; an exception of the vector
\* search hands over to the fallback
retrieve_memory(s, owner, user_message, config, corpus, days_ago, remoteOK, dbOK, fallbackOK) ==
    LET q == get_embedding(user_message, remoteOK)
    IN  IF ~config.enabled THEN {Retrieved("disabled", << >>)}
        ELSE IF ~dbOK \/ DimensionMismatch(s, owner, q)
        THEN retrieve_memory_fallback(s, owner, user_message, config, corpus,
                                      days_ago, fallbackOK)
        ELSE {Ranked("vector", rows,
                     ScoreVectorRows(s, rows, q, days_ago, config)
                     \o ScoreCorpus(corpus, user_message, config),
                     config)
              : rows \in VectorRows(s, owner, q, config.max_memories * 2)}

-----------------------------------------------------------------------------
(* Requests.  loc[p] holds the live local variables of the ingestion        *)
(* request run by p; pc[p] is the await point it has reached.  A callee's   *)
(* locals (the fetched row, the candidate list, the adjudicator's answers)  *)
(* are kept until the next step of the request and then go out of scope.    *)

NoGate == GateResult(FALSE, NO_ID, NONE_SIM, NO_ID, FALSE)

NoDetect == NoConflict(<< >>, << >>, FALSE)

NoRetrieval == Retrieved("none", << >>)

\* the arguments of a ranker call: the configuration, the auxiliary corpus,
\* the age of each row at the time of the query, and the query vector
Ranking(config, corpus, days_ago, query) ==
    [ config |-> config, corpus |-> corpus, days_ago |-> days_ago,
      query |-> query ]

NoRanking == Ranking(RAGConfig(FALSE, 0), << >>, << >>, NULL_EMBEDDING)

\* the output of the routing model: the call returned or raised, the kind of
\* text it returned, and the keys and the route of the parsed object
ClassifierOutput(ok, json, keys, route) ==
    [ ok |-> ok, json |-> json, keys |-> keys, route |-> route ]

NoOutput == ClassifierOutput(FALSE, "none", {}, "")

\* AgentState as run_chat_graph initialises it, with the stages the run has
\* gone through, the classifier output of its ROUTE stage, the memories its
\* GENERATE stage was handed, and the exception that ended it
NoRun ==
    [ stream                |-> FALSE,
      user_message          |-> << >>,
      classifier            |-> NoOutput,
      route_decision        |-> "mentor_chat",
      context               |-> << >>,
      generation            |-> "",
      needs_fact_extraction |-> FALSE,
      error                 |-> FALSE,
      raised                |-> "none",
      trace                 |-> << >> ]

\* one call of get_embedding: whether client.embeddings.create was reached,
\* whether it failed, whether an exception left get_embedding
EmbeddingCall(called, remote_failed, raised) ==
    [ called |-> called, remote_failed |-> remote_failed, raised |-> raised ]

NoEmbeddingCall == EmbeddingCall(FALSE, FALSE, FALSE)

IdleLoc ==
    [ kind          |-> "none",
      target_id     |-> 0,
      content       |-> EMPTY_TEXT,
      embedding     |-> NULL_EMBEDDING,
      gate          |-> NoGate,
      detect        |-> NoDetect,
      conflict_info |-> NO_ID,
      marked        |-> FALSE,
      created       |-> NO_ID,
      failed        |-> {},
      retrieved     |-> NoRetrieval,
      batch         |-> << >>,
      content_hash  |-> NO_HASH,
      fallback      |-> FALSE,
      pending       |-> << >>,
      memories_created |-> 0,
      stored_before |-> 0,
      overlapped    |-> FALSE,
      run           |-> NoRun,
      ranking       |-> NoRanking,
      embed         |-> NoEmbeddingCall ]

\* the inputs and faults a specification draws from
FullEnv ==
    [ owners |-> Owners, contents |-> Contents, oks |-> BOOLEAN ]

RaceEnv ==
    [ owners |-> {1}, contents |-> {TEA, NO_TEA}, oks |-> {TRUE} ]

QuietEnv ==
    [ owners |-> Owners, contents |-> FactTexts, oks |-> {TRUE} ]

RankEnv ==
    [ owners |-> Owners, contents |-> {TEA, TEA_ICED, BLANK_TEXT},
      oks |-> BOOLEAN ]

GateEnv ==
    [ owners |-> Owners, contents |-> {TEA, NO_TEA, TEA_MILD},
      oks |-> BOOLEAN ]

PlainRankEnv ==
    [ owners |-> Owners, contents |-> {TEA}, oks |-> {TRUE} ]

InFlight == {q \in Procs : pc[q] \notin {"idle", "done"}}

Init ==
    /\ store = << >>
    /\ pc = [p \in Procs |-> "idle"]
    /\ loc = [p \in Procs |-> IdleLoc]

\* extract_facts, up to get_embedding(content_summary): the extraction model
\* either yields no fact (call failed, unparsable output, has_new_fact false)
\* or a content summary
BeginExtractWithin(p, env, bound) ==
    /\ pc[p] = "idle"
    /\ Len(store) + Cardinality(InFlight) < bound
    /\ \E owner \in env.owners :
         \/ /\ pc' = [pc EXCEPT ![p] = "done"]
            /\ loc' = [loc EXCEPT ![p] =
                          [IdleLoc EXCEPT !.kind = "chat", !.target_id = owner]]
         \/ \E content \in env.contents, remoteOK \in env.oks :
              /\ pc' = [pc EXCEPT ![p] = "gate"]
              /\ loc' = [q \in Procs |->
                            IF q = p
                            THEN [IdleLoc EXCEPT
                                    !.kind = "chat",
                                    !.target_id = owner,
                                    !.content = content,
                                    !.embedding =
                                        get_embedding(content, remoteOK),
                                    !.overlapped = (InFlight # {})]
                            ELSE IF q \in InFlight
                            THEN [loc[q] EXCEPT !.overlapped = TRUE]
                            ELSE loc[q]]
    /\ UNCHANGED store

BeginExtract(p, env) == BeginExtractWithin(p, env, MaxStore)

\* faulty variant: the verdict is only logged and the ingestion goes on to
\* the resolver
CheckDuplicate_Through(p, env) ==
    /\ pc[p] = "gate"
    /\ \E dbOK \in env.oks :
         \E r \in check_duplicate_memory(store, loc[p].target_id, loc[p].content,
                                         loc[p].embedding, dbOK) :
            /\ loc' = [loc EXCEPT
                         ![p].gate = r,
                         ![p].failed = IF r.queried /\ ~dbOK
                                       THEN {"gate"} ELSE {}]
            /\ pc' = [pc EXCEPT ![p] = "detect"]
    /\ UNCHANGED store

\* await check_duplicate_memory(...); `if is_duplicate: return state`
CheckDuplicate(p, env) ==
    /\ pc[p] = "gate"
    /\ \E dbOK \in env.oks :
         \E r \in check_duplicate_memory(store, loc[p].target_id, loc[p].content,
                                         loc[p].embedding, dbOK) :
            /\ loc' = [loc EXCEPT
                         ![p].gate = r,
                         ![p].failed = IF r.queried /\ ~dbOK
                                       THEN {"gate"} ELSE {}]
            /\ pc' = [pc EXCEPT ![p] =
                         IF ~r.is_duplicate THEN "detect"
                         ELSE IF loc[p].kind = "chat" THEN "done"
                         ELSE IF loc[p].fallback THEN "commit"
                         ELSE "next"]
    /\ UNCHANGED store

\* handle_memory_conflict, first half: await detect_conflicting_memory(...);
\* `if not is_conflict or memory_id is None: return None`
DetectConflict(p, env) ==
    /\ pc[p] = "detect"
    /\ \E dbOK \in env.oks,
          resps \in [1..Min(CANDIDATE_LIMIT,
                            Cardinality(Searchable(store, loc[p].target_id)))
                    -> {r \in Responses : r.ok \in env.oks}] :
         \E r \in detect_conflicting_memory(store, loc[p].target_id,
                                            loc[p].content, loc[p].embedding,
                                            dbOK, resps) :
            /\ loc' = [loc EXCEPT
                         ![p].gate = NoGate,
                         ![p].detect = r,
                         ![p].failed =
                             @ \cup (IF r.queried /\ ~dbOK
                                     THEN {"detect"} ELSE {})
                               \cup (IF \E m \in DOMAIN r.asked :
                                            ~r.asked[m].ok
                                     THEN {"adjudicate"} ELSE {})]
            /\ pc' = [pc EXCEPT ![p] =
                         IF r.is_conflict /\ r.memory_id # NO_ID
                         THEN "mark" ELSE "insert"]
    /\ UNCHANGED store

\* detect's candidate list and answers are gone once it has returned; of the
\* answers only the confirming one, if any, is remembered (history for the
\* properties)
Returned(d) ==
    [d EXCEPT !.candidates = << >>,
              !.asked = IF d.is_conflict /\ @ # << >>
                        THEN <<@[Len(@)]>> ELSE << >>]

\* faulty variant: the column takes a vector of any dimension
InsertAccepted_AnyDimension(embedding) == TRUE

\* the INSERT of the flush: the vector column accepts only its own dimension
InsertAccepted(embedding) ==
    embedding = NULL_EMBEDDING \/ embedding.dim = COLUMN_DIMENSION

FlushAccepted(rows) ==
    \A m \in DOMAIN rows : InsertAccepted(rows[m].embedding)

\* handle_memory_conflict, second half: await mark_memory_as_outdated(...);
\* conflict_info is returned only on success
\* Its commit also flushes the rows the request has added to the session so
\* far, and its rollback discards them.
MarkOutdated(p, env) ==
    /\ pc[p] = "mark"
    /\ \E ok \in env.oks :
         LET id   == loc[p].detect.memory_id
             good == ok /\ FlushAccepted(loc[p].pending)
         IN  /\ store' = mark_memory_as_outdated(store, id, good)
                            \o (IF good THEN loc[p].pending ELSE << >>)
             /\ loc' = [loc EXCEPT
                          ![p].detect = Returned(@),
                          ![p].conflict_info = IF good THEN id ELSE NO_ID,
                          ![p].marked = (good /\ store[id].status = "active"),
                          ![p].pending = << >>,
                          ![p].failed =
                              @ \cup (IF good THEN {} ELSE {"mark"})]
    /\ pc' = [pc EXCEPT ![p] = "insert"]

\* the TargetMemory object the request builds
NewMemory(p) ==
    Row(loc[p].target_id, loc[p].content, loc[p].embedding,
        loc[p].content_hash, loc[p].conflict_info, loc[p].marked,
        loc[p].overlapped)

\* extract_facts: db.add(new_memory); await db.commit(); an exception is
\* caught and logged
InsertMemory(p, env) ==
    /\ pc[p] = "insert"
    /\ loc[p].kind = "chat"
    /\ \E ok \in env.oks :
         LET good == ok /\ InsertAccepted(loc[p].embedding)
         IN  /\ store' = IF good THEN Append(store, NewMemory(p)) ELSE store
             /\ loc' = [loc EXCEPT
                          ![p].detect = Returned(@),
                          ![p].created = IF good THEN Len(store) + 1 ELSE NO_ID,
                          ![p].failed =
                              @ \cup (IF good THEN {} ELSE {"commit"})]
    /\ pc' = [pc EXCEPT ![p] = "done"]

\* the callers' settings of the ranker
RAGConfigs == {RAGConfig(FALSE, 5), RAGConfig(TRUE, 1), RAGConfig(TRUE, 5)}

\* rag_corpus: the auxiliary corpus of the chatbot, as its contents
Corpora == {<< >>, <<TEA_ICED, EMPTY_TEXT>>}

\* days between a row's happened_at and the query
Days == {0, 10}

\* the queries of retrieve_memory that raised: the vector search, and the
\* keyword query run in its place
RankFailures(s, owner, user_message, config, remoteOK, dbOK, fallbackOK) ==
    IF ~config.enabled THEN {}
    ELSE IF dbOK /\ ~DimensionMismatch(s, owner,
                                       get_embedding(user_message, remoteOK))
    THEN {}
    ELSE IF fallbackOK THEN {"vector"}
    ELSE {"vector", "fallback"}

\* retrieve_memory for one chat turn, with the configuration, the corpus and
\* the ages of the rows drawn from the given sets: the store is only read
RankWith(p, env, configs, corpora, days) ==
    /\ pc[p] = "idle"
    /\ \E owner \in env.owners, user_message \in env.contents,
          config \in configs, corpus \in corpora,
          remoteOK \in env.oks, dbOK \in env.oks, fallbackOK \in env.oks :
         \E days_ago \in [DOMAIN store -> days] :
            \E r \in retrieve_memory(store, owner, user_message, config,
                                     corpus, days_ago, remoteOK, dbOK,
                                     fallbackOK) :
               loc' = [loc EXCEPT ![p] =
                          [IdleLoc EXCEPT
                             !.kind = "rank",
                             !.target_id = owner,
                             !.content = user_message,
                             !.retrieved = r,
                             !.failed =
                                 RankFailures(store, owner, user_message,
                                              config, remoteOK, dbOK,
                                              fallbackOK),
                             !.ranking =
                                 Ranking(config, corpus, days_ago,
                                         get_embedding(user_message,
                                                       remoteOK))]]
    /\ pc' = [pc EXCEPT ![p] = "done"]
    /\ UNCHANGED store

RetrieveMemory(p, env) == RankWith(p, env, RAGConfigs, Corpora, Days)

-----------------------------------------------------------------------------
(* upload_and_analyze: the memories of one analysed image are ingested in   *)
(* one request, on one session, with a single commit at the end             *)

NO_FINGERPRINT == << >>

\* NewMemory of the analysis result
Memory(fingerprint, content_summary) ==
    [ conversation_fingerprint |-> fingerprint,
      content_summary          |-> content_summary ]

FP1 == <<"f", "1">>

\* hashlib.md5(content.encode()).hexdigest(), as the term md5(content)
compute_content_hash(content) == <<"md5">> \o content

\* `analysis_result.raw_text_extracted or <placeholder>`: the placeholder
\* text, written by its pinyin syllables
UPLOAD_PLACEHOLDER == <<"tu", "pian", "shang", "chuan">>

\* analysis_result.new_memories
Batches ==
    { << >>,
      <<Memory(NO_FINGERPRINT, TEA), Memory(NO_FINGERPRINT, TEA)>>,
      <<Memory(NO_FINGERPRINT, TEA), Memory(NO_FINGERPRINT, NO_TEA)>>,
      <<Memory(FP1, TEA_ICED), Memory(FP1, NO_TEA)>>,
      <<Memory(NO_FINGERPRINT, EMPTY_TEXT)>> }

RawTexts == {NULL_CONTENT, TEA}

\* the request fails with an unhandled exception: get_db rolls the session
\* back
Abort(l, what) ==
    [l EXCEPT !.pending = << >>, !.batch = << >>,
              !.failed = @ \cup {what}]

\* upload_and_analyze up to the loop over new_memories; stored_before keeps
\* the size of the table at that moment (history for the properties)
BeginUpload(p, env) ==
    /\ pc[p] = "idle"
    /\ \E owner \in env.owners, batch \in Batches :
         /\ Len(store) + (IF batch = << >> THEN 1 ELSE Len(batch)) <= MaxStore
         /\ loc' = [loc EXCEPT ![p] =
                       [IdleLoc EXCEPT !.kind = "upload",
                                       !.target_id = owner,
                                       !.batch = batch,
                                       !.stored_before = Len(store)]]
    /\ pc' = [pc EXCEPT ![p] = "next"]
    /\ UNCHANGED store

\* select(TargetMemory).where(target_id == ..., content_hash == ...)
HashMatches(s, owner, hash) ==
    {i \in DOMAIN s : s[i].target_id = owner /\ s[i].content_hash = hash}

\* the head of an iteration of `for new_memory in analysis_result.new_memories`:
\* the fingerprint check, and the record without summary, which is added
\* without an embedding
NextMemory(p, env) ==
    /\ pc[p] = "next"
    /\ loc[p].batch # << >>
    /\ LET m    == Head(loc[p].batch)
           rest == [loc[p] EXCEPT !.batch = Tail(@),
                                  !.content = EMPTY_TEXT,
                                  !.embedding = NULL_EMBEDDING,
                                  !.content_hash = NO_HASH,
                                  !.gate = NoGate,
                                  !.detect = NoDetect,
                                  !.conflict_info = NO_ID,
                                  !.marked = FALSE]
           hash == IF m.conversation_fingerprint = NO_FINGERPRINT THEN NO_HASH
                   ELSE compute_content_hash(m.conversation_fingerprint)
           l    == [rest EXCEPT !.content = m.content_summary,
                                !.content_hash = hash]
       IN  \E dbOK \in env.oks, remoteOK \in env.oks :
             LET found == HashMatches(store, loc[p].target_id, hash)
             IN  IF hash # NO_HASH /\ (~dbOK \/ Cardinality(found) > 1)
                 THEN /\ loc' = [loc EXCEPT ![p] = Abort(rest, "hash")]
                      /\ pc' = [pc EXCEPT ![p] = "done"]
                 ELSE IF hash # NO_HASH /\ found # {}
                 THEN /\ loc' = [loc EXCEPT ![p] = rest]
                      /\ pc' = pc
                 ELSE IF m.content_summary = EMPTY_TEXT
                 THEN /\ loc' = [loc EXCEPT ![p] =
                                    [l EXCEPT
                                       !.pending =
                                           Append(@, Row(l.target_id, l.content,
                                                         NULL_EMBEDDING, hash,
                                                         NO_ID, FALSE,
                                                         l.overlapped)),
                                       !.memories_created = @ + 1]]
                      /\ pc' = pc
                 ELSE /\ loc' = [loc EXCEPT ![p] =
                                    [l EXCEPT !.embedding =
                                        get_embedding(l.content, remoteOK)]]
                      /\ pc' = [pc EXCEPT ![p] = "gate"]
    /\ UNCHANGED store

\* db.add(memory); memories_created += 1 (in the loop), or
\* db.add(memory); memories_created = 1 (the fallback record)
AddMemory(p) ==
    /\ pc[p] = "insert"
    /\ loc[p].kind = "upload"
    /\ loc' = [loc EXCEPT
                 ![p].detect = Returned(@),
                 ![p].pending = Append(@, NewMemory(p)),
                 ![p].memories_created = IF loc[p].fallback THEN 1 ELSE @ + 1]
    /\ pc' = [pc EXCEPT ![p] = IF loc[p].fallback THEN "commit" ELSE "next"]
    /\ UNCHANGED store

\* after the loop: `if memories_created == 0:` a basic record of the upload
BeginFallback(p, env) ==
    /\ pc[p] = "next"
    /\ loc[p].batch = << >>
    /\ IF loc[p].memories_created # 0
       THEN /\ pc' = [pc EXCEPT ![p] = "commit"]
            /\ loc' = loc
       ELSE \E raw \in RawTexts, remoteOK \in env.oks :
              LET content == IF raw \in {NULL_CONTENT, EMPTY_TEXT}
                             THEN UPLOAD_PLACEHOLDER ELSE raw
              IN  /\ loc' = [loc EXCEPT
                               ![p].fallback = TRUE,
                               ![p].content = content,
                               ![p].content_hash = NO_HASH,
                               ![p].embedding =
                                   get_embedding(content, remoteOK),
                               ![p].gate = NoGate,
                               ![p].detect = NoDetect,
                               ![p].conflict_info = NO_ID,
                               ![p].marked = FALSE]
                  /\ pc' = [pc EXCEPT ![p] = "gate"]
    /\ UNCHANGED store

\* await db.commit(): the pending rows are flushed and committed together, or
\* the request fails and none of them is stored
CommitUpload(p, env) ==
    /\ pc[p] = "commit"
    /\ \E ok \in env.oks :
         LET good == ok /\ FlushAccepted(loc[p].pending)
         IN  /\ store' = IF good THEN store \o loc[p].pending ELSE store
             /\ loc' = [loc EXCEPT
                          ![p].pending = << >>,
                          ![p].failed = @ \cup (IF good THEN {} ELSE {"commit"})]
    /\ pc' = [pc EXCEPT ![p] = "done"]

UploadStep(p, env) ==
    \/ BeginUpload(p, env)
    \/ NextMemory(p, env)
    \/ AddMemory(p)
    \/ BeginFallback(p, env)
    \/ CommitUpload(p, env)

\* the request returns
Return(p) ==
    /\ pc[p] = "done"
    /\ pc' = [pc EXCEPT ![p] = "idle"]
    /\ loc' = [loc EXCEPT ![p] = IdleLoc]
    /\ UNCHANGED store

Step(p, env) ==
    \/ BeginExtract(p, env)
    \/ CheckDuplicate(p, env)
    \/ DetectConflict(p, env)
    \/ MarkOutdated(p, env)
    \/ InsertMemory(p, env)
    \/ Return(p)

\* One request at a time: the requests of a single worker (chat turns that
\* rank and ingest, uploads) run to completion one after the other, and any
\* external call may fail
SeqProcs == {1}

SeqNext ==
    \E p \in SeqProcs :
        \/ Step(p, FullEnv)
        \/ UploadStep(p, FullEnv)
        \/ RetrieveMemory(p, PlainRankEnv)

SpecSeq == Init /\ [][SeqNext]_vars

\* Chat turns of a single worker: each ranks the memories of its owner and
\* may then ingest a fact
RankNext ==
    \E p \in SeqProcs :
        \/ Step(p, QuietEnv)
        \/ RetrieveMemory(p, RankEnv)

SpecRank == Init /\ [][RankNext]_vars

\* Chat turns and uploads of a single worker, with every external call
\* succeeding
UploadNext ==
    \E p \in SeqProcs :
        \/ Step(p, QuietEnv)
        \/ UploadStep(p, QuietEnv)

SpecUpload == Init /\ [][UploadNext]_vars

\* Chat ingestions of a single worker for one owner, up to MaxDetectStore
\* records: enough for the resolver's search to find more rows than its LIMIT
DetectEnv ==
    [ owners |-> {1}, contents |-> {TEA, NO_TEA}, oks |-> BOOLEAN ]

DetectNext ==
    \E p \in SeqProcs :
        \/ BeginExtractWithin(p, DetectEnv, MaxDetectStore + 1)
        \/ CheckDuplicate(p, DetectEnv)
        \/ DetectConflict(p, DetectEnv)
        \/ MarkOutdated(p, DetectEnv)
        \/ InsertMemory(p, DetectEnv)
        \/ Return(p)

SpecDetect == Init /\ [][DetectNext]_vars

\* Chat ingestions of a single worker around the dedup threshold, any
\* external call may fail
GateNext == \E p \in SeqProcs : Step(p, GateEnv)

SpecGate == Init /\ [][GateNext]_vars

-----------------------------------------------------------------------------
(* The chat orchestrator: run_chat_graph and run_chat_graph_stream          *)

\* the texts a JSON-mode model may answer with: nothing parsable, a JSON
\* value that is not an object, or an object
ClassifierOutputs ==
    { ClassifierOutput(FALSE, "none", {}, ""),
      ClassifierOutput(TRUE, "malformed", {}, ""),
      ClassifierOutput(TRUE, "array", {}, ""),
      ClassifierOutput(TRUE, "object", {}, ""),
      ClassifierOutput(TRUE, "object", {"reasoning"}, ""),
      ClassifierOutput(TRUE, "object", {"route"}, "mentor_chat"),
      ClassifierOutput(TRUE, "object", {"route", "reasoning"}, "memory_rag"),
      ClassifierOutput(TRUE, "object", {"route"}, "Memory_RAG"),
      ClassifierOutput(TRUE, "object", {"route"}, "") }

\* faulty variant: retrieves unless the classifier said otherwise
route_question_DefaultRag(out) ==
    IF ~out.ok \/ out.json # "object" THEN "memory_rag"
    ELSE LET route == IF "route" \in out.keys THEN out.route
                      ELSE "memory_rag"
         IN  IF route \notin {"mentor_chat", "memory_rag"}
             THEN "memory_rag" ELSE route

\* route_question: the route_decision it returns.  The call, json.loads and
\* result.get (on a value that is not an object) raise inside the try, whose
\* handler returns "mentor_chat"
route_question(out) ==
    IF ~out.ok \/ out.json # "object" THEN "mentor_chat"
    ELSE LET route == IF "route" \in out.keys THEN out.route
                      ELSE "mentor_chat"
         IN  IF route \notin {"mentor_chat", "memory_rag"}
             THEN "mentor_chat" ELSE route

\* faulty variant: retrieves on the other route
should_retrieve_Inverted(route_decision) == route_decision # "memory_rag"

\* `if state["route_decision"] == "memory_rag"`
should_retrieve(route_decision) == route_decision = "memory_rag"

\* the characters of a message are written by their pinyin syllables
TODAY_TEA == <<"jin", "tian", " ", "t", "e", "a">>

\* the keywords of the heuristic of generate_mentor_response
FACT_KEYWORDS ==
    { <<"ta", "shuo">>, <<"fa", "sheng", "le">>, <<"gao", "su", "wo">>,
      <<"jin", "tian">>, <<"zuo", "tian">>, <<"gang", "cai">> }

\* faulty variant: the flag is set whatever the message says
NeedsFactExtraction_Always(user_message) == TRUE

\* any(keyword in user_message for keyword in [...])
NeedsFactExtraction(user_message) ==
    \E keyword \in FACT_KEYWORDS : Contains(keyword, user_message)

\* str.format on system_prompt_template: it renders, raises KeyError (an
\* unknown field name), or raises another exception (ValueError on an
\* unbalanced brace, IndexError on a positional field)
Renders == {"ok", "KeyError", "ValueError"}

RunMessages == {TEA, TODAY_TEA}

REPLY == "reply"

APOLOGY == "apology"

Stage(l, name) == [l EXCEPT !.run.trace = Append(@, name)]

\* run_chat_graph / run_chat_graph_stream up to the first stage
BeginRun(p, env) ==
    /\ pc[p] = "idle"
    /\ Len(store) + Cardinality(InFlight) < MaxStore
    /\ \E owner \in env.owners, user_message \in RunMessages,
          stream \in BOOLEAN :
         loc' = [loc EXCEPT ![p] =
                    [IdleLoc EXCEPT !.kind = "run",
                                    !.target_id = owner,
                                    !.content = user_message,
                                    !.run.user_message = user_message,
                                    !.run.stream = stream]]
    /\ pc' = [pc EXCEPT ![p] = "route"]
    /\ UNCHANGED store

\* state = route_question(state), and the branch on its decision
RouteQuestion(p) ==
    /\ pc[p] = "route"
    /\ \E out \in ClassifierOutputs :
         LET route == route_question(out)
         IN  /\ loc' = [loc EXCEPT ![p] =
                           Stage([loc[p] EXCEPT !.run.classifier = out,
                                                !.run.route_decision = route],
                                 "route")]
             /\ pc' = [pc EXCEPT ![p] = IF should_retrieve(route)
                                        THEN "retrieve" ELSE "generate"]
    /\ UNCHANGED store

\* state = await retrieve_memory(state, db)
RunRetrieve(p, env) ==
    /\ pc[p] = "retrieve"
    /\ \E config \in RAGConfigs, corpus \in Corpora,
          remoteOK \in env.oks, dbOK \in env.oks, fallbackOK \in env.oks :
         \E days_ago \in [DOMAIN store -> Days] :
            \E r \in retrieve_memory(store, loc[p].target_id, loc[p].content,
                                     config, corpus, days_ago, remoteOK, dbOK,
                                     fallbackOK) :
               loc' = [loc EXCEPT ![p] =
                          Stage([loc[p] EXCEPT
                                   !.retrieved = r,
                                   !.failed =
                                       RankFailures(store, loc[p].target_id,
                                                    loc[p].content, config,
                                                    remoteOK, dbOK,
                                                    fallbackOK),
                                   !.ranking =
                                       Ranking(config, corpus, days_ago,
                                               get_embedding(loc[p].content,
                                                             remoteOK))],
                                "retrieve")]
    /\ pc' = [pc EXCEPT ![p] = "generate"]
    /\ UNCHANGED store

\* generate_mentor_response, or the streamed generation of
\* run_chat_graph_stream: the prompt is built from state["retrieved_memories"],
\* only KeyError of the template is handled, and only the blocking variant
\* wraps the model call in a try
Generate(p, env) ==
    /\ pc[p] = "generate"
    /\ \E render \in Renders, llmOK \in env.oks :
         LET l == Stage([loc[p] EXCEPT !.run.classifier = NoOutput,
                                       !.run.context = loc[p].retrieved.items],
                        "generate")
         IN  IF render \notin {"ok", "KeyError"}
             THEN /\ loc' = [loc EXCEPT ![p] =
                                [l EXCEPT !.run.raised = "template"]]
                  /\ pc' = [pc EXCEPT ![p] = "raised"]
             ELSE IF l.run.stream
             THEN IF llmOK
                  THEN /\ loc' = [loc EXCEPT ![p] =
                                     [l EXCEPT !.run.generation = REPLY]]
                       /\ pc' = [pc EXCEPT ![p] = "done"]
                  ELSE /\ loc' = [loc EXCEPT ![p] =
                                     [l EXCEPT !.run.raised = "generation"]]
                       /\ pc' = [pc EXCEPT ![p] = "raised"]
             ELSE IF llmOK
             THEN LET needs == NeedsFactExtraction(l.content)
                  IN  /\ loc' = [loc EXCEPT ![p] =
                                    [l EXCEPT
                                       !.run.generation = REPLY,
                                       !.run.needs_fact_extraction = needs]]
                      /\ pc' = [pc EXCEPT ![p] = IF needs THEN "extract"
                                                 ELSE "done"]
             ELSE /\ loc' = [loc EXCEPT ![p] =
                                [l EXCEPT !.run.generation = APOLOGY,
                                          !.run.needs_fact_extraction = FALSE,
                                          !.run.error = TRUE]]
                  /\ pc' = [pc EXCEPT ![p] = "done"]
    /\ UNCHANGED store

\* state = await extract_facts(state, db), up to get_embedding: the
\* ingestion of the turn's fact goes on as in BeginExtract
RunExtract(p, env) ==
    /\ pc[p] = "extract"
    /\ LET l == Stage([loc[p] EXCEPT !.kind = "chat"], "extract")
       IN  \/ /\ pc' = [pc EXCEPT ![p] = "done"]
              /\ loc' = [loc EXCEPT ![p] = l]
           \/ \E content \in env.contents, remoteOK \in env.oks :
                /\ pc' = [pc EXCEPT ![p] = "gate"]
                /\ loc' = [loc EXCEPT ![p] =
                              [l EXCEPT !.content = content,
                                        !.embedding =
                                            get_embedding(content, remoteOK)]]
    /\ UNCHANGED store

\* the exception leaves the orchestrator: the request ends with it
RunRaised(p) ==
    /\ pc[p] = "raised"
    /\ pc' = [pc EXCEPT ![p] = "idle"]
    /\ loc' = [loc EXCEPT ![p] = IdleLoc]
    /\ UNCHANGED store

RunStep(p, env) ==
    \/ BeginRun(p, env)
    \/ RouteQuestion(p)
    \/ RunRetrieve(p, env)
    \/ Generate(p, env)
    \/ RunExtract(p, env)
    \/ RunRaised(p)

RunEnv ==
    [ owners |-> {1}, contents |-> {TEA, NO_TEA}, oks |-> BOOLEAN ]

\* Chat turns of a single worker run by the orchestrator, any external call
\* may fail
RunNext ==
    \E p \in SeqProcs :
        \/ RunStep(p, RunEnv)
        \/ CheckDuplicate(p, RunEnv)
        \/ DetectConflict(p, RunEnv)
        \/ MarkOutdated(p, RunEnv)
        \/ InsertMemory(p, RunEnv)
        \/ Return(p)

SpecRun == Init /\ [][RunNext]_vars

-----------------------------------------------------------------------------
(* ChatService._retrieve_memories: the keyword ranker of get_chat_context   *)

CONTEXT_CORPUS_HIT_SCORE == <<5, 10>>

\* the id given to a retrieved item that has none
ZERO_UUID == -1

\* hits * 0.5 if hits > 0 else 0.05
ContextCorpusScore(hits) ==
    IF hits > 0 THEN RatMul(<<hits, 1>>, CONTEXT_CORPUS_HIT_SCORE)
    ELSE CORPUS_BASE_SCORE

\* the `for corpus_item in custom_corpus` loop of _retrieve_memories
RECURSIVE ScoreContextCorpus(_, _, _)
ScoreContextCorpus(corpus, query, config) ==
    IF corpus = << >> THEN << >>
    ELSE LET content == Head(corpus)
             score   == ContextCorpusScore(Hits(query, content))
             rest    == ScoreContextCorpus(Tail(corpus), query, config)
         IN  IF content = EMPTY_TEXT THEN rest
             ELSE IF RatGE(score, config.min_relevance_score)
             THEN <<Scored(ZERO_UUID, content, "corpus", score)>> \o rest
             ELSE rest

\* get_chat_context, step 4: every list of retrieved memories it may build
\* (`if rag_enabled and max_memories > 0`, then _retrieve_memories)
retrieve_memories(s, owner, query, config, corpus, days_ago) ==
    IF ~(config.enabled /\ config.max_memories > 0)
    THEN {Retrieved("disabled", << >>)}
    ELSE {Ranked("context", rows,
                 ScoreKeywordRows(s, rows, query, days_ago, config)
                 \o ScoreContextCorpus(corpus, query, config),
                 config)
          : rows \in KeywordRows(s, owner, days_ago, config.max_memories * 3)}

\* get_chat_context for one chat turn: the store is only read, and a failed
\* query ends the request with its exception
ContextWith(p, env, configs, corpora, days) ==
    /\ pc[p] = "idle"
    /\ \E owner \in env.owners, query \in env.contents,
          config \in configs, corpus \in corpora, dbOK \in env.oks :
         \E days_ago \in [DOMAIN store -> days] :
            LET l == [IdleLoc EXCEPT
                        !.kind = "rank",
                        !.target_id = owner,
                        !.content = query,
                        !.ranking = Ranking(config, corpus, days_ago,
                                            NULL_EMBEDDING)]
            IN  IF ~dbOK /\ config.enabled /\ config.max_memories > 0
                THEN loc' = [loc EXCEPT ![p] =
                                [l EXCEPT !.retrieved =
                                              Retrieved("failed", << >>),
                                          !.failed = {"rank"}]]
                ELSE \E r \in retrieve_memories(store, owner, query, config,
                                                corpus, days_ago) :
                        loc' = [loc EXCEPT ![p] = [l EXCEPT !.retrieved = r]]
    /\ pc' = [pc EXCEPT ![p] = "done"]
    /\ UNCHANGED store

\* rag_settings of a chatbot: max_memories from none to more than the store
\* holds, min_relevance_score at the callers' default, at the default of
\* RAGConfig and at the top of the scale
ShapeConfigs ==
    { RAGConfigWith(TRUE, 0, <<0, 1>>),
      RAGConfigWith(TRUE, 1, <<0, 1>>),
      RAGConfigWith(TRUE, 5, <<0, 1>>),
      RAGConfig(TRUE, 5),
      RAGConfigWith(TRUE, 5, <<1, 1>>) }

\* rag_corpus: none, or two entries around an entry without content
ShapeCorpora == {<< >>, <<TEA_ICED, EMPTY_TEXT, NO_TEA>>}

ShapeEnv ==
    [ owners |-> {1}, contents |-> {TEA, TEA_ICED, BLANK_TEXT},
      oks |-> BOOLEAN ]

StoreEnv ==
    [ owners |-> {1}, contents |-> {TEA, NO_TEA, TEA_ICED}, oks |-> {TRUE} ]

\* Chat turns of a single worker: each ranks the memories of its owner, by
\* the orchestrator's ranker or by get_chat_context, and may then ingest a
\* fact
ShapeNext ==
    \E p \in SeqProcs :
        \/ Step(p, StoreEnv)
        \/ RankWith(p, ShapeEnv, ShapeConfigs, ShapeCorpora, Days)
        \/ ContextWith(p, ShapeEnv, ShapeConfigs, ShapeCorpora, Days)

SpecShape == Init /\ [][ShapeNext]_vars

-----------------------------------------------------------------------------
(* EmbeddingService.get_embedding on its own *)

\* get_embedding(text): the blank test returns before the try; the remote
\* call is inside it, and its handler returns the zero vector
Embed(p, env) ==
    /\ pc[p] = "idle"
    /\ \E text \in env.contents, remoteOK \in env.oks :
         loc' = [loc EXCEPT ![p] =
                    [IdleLoc EXCEPT
                       !.kind = "embed",
                       !.content = text,
                       !.embedding = get_embedding(text, remoteOK),
                       !.embed = IF IsBlank(text) THEN NoEmbeddingCall
                                 ELSE EmbeddingCall(TRUE, ~remoteOK, FALSE)]]
    /\ pc' = [pc EXCEPT ![p] = "done"]
    /\ UNCHANGED store

\* Requests of a single worker: chat ingestions and plain embedding calls,
\* any external call may fail
EmbedNext ==
    \E p \in SeqProcs :
        \/ Step(p, FullEnv)
        \/ Embed(p, FullEnv)

SpecEmbed == Init /\ [][EmbedNext]_vars

\* Requests interleave at their await points
Next == \E p \in Procs : Step(p, RaceEnv)

Spec == Init /\ [][Next]_vars


-----------------------------------------------------------------------------
(* Helpers of the properties *)

Active(i) == store[i].status = "active"

Outdated(i) == store[i].status = "outdated"

Failed(p, what) == what \in loc[p].failed

\* the rows of p's owner that carry the content p is ingesting, other than the
\* row p created itself
SameContentRows(p) ==
    {i \in DOMAIN store :
        /\ i # loc[p].created
        /\ store[i].target_id = loc[p].target_id
        /\ store[i].content = loc[p].content}

\* ... that were active when p's gate ran (p itself may have superseded one)
SameContentAtGate(p) ==
    {i \in SameContentRows(p) :
        Active(i) \/ (loc[p].marked /\ loc[p].detect.memory_id = i)}

\* p's new row is committed as an active record with p's content
Committed(p) ==
    /\ loc[p].created \in DOMAIN store
    /\ Active(loc[p].created)
    /\ store[loc[p].created].target_id = loc[p].target_id
    /\ store[loc[p].created].content = loc[p].content

\* p runs the chat fact-extraction pipeline / has finished it
Chat(p) == loc[p].kind = "chat"

ChatDone(p) == pc[p] = "done" /\ Chat(p)

\* ... and the extraction had yielded a fact, which went to the gate
FactDone(p) == ChatDone(p) /\ loc[p].embedding # NULL_EMBEDDING

\* detect has just returned to p: its candidates and answers are in view
DetectInView(p) ==
    /\ loc[p].detect.queried
    /\ \/ pc[p] = "mark"
       \/ pc[p] = "insert" /\ ~loc[p].detect.is_conflict

\* position of the first candidate whose answer the resolver takes for a yes
FirstYes(p) ==
    LET a == loc[p].detect.asked
    IN  IF \E m \in DOMAIN a : check_conflict_with_llm(a[m])
        THEN CHOOSE m \in DOMAIN a :
                /\ check_conflict_with_llm(a[m])
                /\ \A l \in 1..(m - 1) : ~check_conflict_with_llm(a[l])
        ELSE 0

-----------------------------------------------------------------------------
(* C1 *)

\* C1 (as claimed): when an ingestion finishes whose resolver found an active
\* record A with similarity >= 0.75 that the adjudicator answered yes for, A is
\* outdated and the new fact B is an active record with replaced_memory_id = A.
C1_AsClaimed ==
    \A p \in Procs :
        ( /\ ChatDone(p)
          /\ loc[p].detect.is_conflict
          /\ \E m \in DOMAIN loc[p].detect.asked :
                loc[p].detect.asked[m].means_yes ) =>
            /\ Outdated(loc[p].detect.memory_id)
            /\ Committed(p)
            /\ store[loc[p].created].replaced_memory_id = loc[p].detect.memory_id

\* C1 (amended): the record A the resolver settles on is the first candidate,
\* in the order fetched (active, same owner, similarity >= 0.75, at most 3),
\* that the adjudicator's answer is taken as yes for; if its status update
\* succeeds A is outdated when the ingestion finishes, and if the insert also
\* commits, B is an active record with replaced_memory_id = A.  If the status
\* update fails A stays as it was and B carries no replaced_memory_id.
C1_Supersession ==
    \A p \in Procs :
        /\ (DetectInView(p) /\ FirstYes(p) # 0) =>
              /\ pc[p] = "mark"
              /\ loc[p].detect.memory_id = loc[p].detect.candidates[FirstYes(p)]
              /\ store[loc[p].detect.memory_id].target_id = loc[p].target_id
              /\ RatGE(loc[p].detect.similarity, CONFLICT_SIMILARITY_THRESHOLD)
        /\ (ChatDone(p) /\ loc[p].detect.is_conflict) =>
              LET A == loc[p].detect.memory_id
              IN  IF Failed(p, "mark")
                  THEN /\ loc[p].conflict_info = NO_ID
                       /\ ~Failed(p, "commit") =>
                             /\ Committed(p)
                             /\ store[loc[p].created].replaced_memory_id = NO_ID
                  ELSE /\ Outdated(A)
                       /\ ~Failed(p, "commit") =>
                             /\ Committed(p)
                             /\ store[loc[p].created].replaced_memory_id = A

\* C1 witness: a chat ingestion without any failure finished after the
\* adjudicator answered yes for a candidate; the candidate is outdated and the
\* new record refers to it
C1_Witness ==
    \E p \in Procs :
        /\ ChatDone(p)
        /\ loc[p].detect.is_conflict
        /\ \E m \in DOMAIN loc[p].detect.asked :
              loc[p].detect.asked[m].means_yes
        /\ loc[p].failed = {}
        /\ Outdated(loc[p].detect.memory_id)
        /\ Committed(p)
        /\ store[loc[p].created].replaced_memory_id = loc[p].detect.memory_id


-----------------------------------------------------------------------------
(* C4 *)

ActiveWithContentOf(p) ==
    {i \in DOMAIN store :
        /\ store[i].target_id = loc[p].target_id
        /\ store[i].content = loc[p].content
        /\ Active(i)}

\* C4 (as claimed): an ingestion of a content that its owner already holds as
\* one active record (the first ingestion's) ends with the gate reporting
\* duplicate with similarity >= 0.92, commits nothing, and leaves exactly one
\* active record with that content.
C4_AsClaimed ==
    \A p \in Procs :
        (FactDone(p) /\ Cardinality(SameContentAtGate(p)) = 1) =>
            /\ loc[p].gate.is_duplicate
            /\ RatGE(loc[p].gate.similarity, SIMILARITY_THRESHOLD)
            /\ loc[p].created = NO_ID
            /\ Cardinality(ActiveWithContentOf(p)) = 1

\* C4 (amended): the same, provided the second ingestion's embedding is not the
\* zero vector (non-blank content, provider call succeeded) and its gate's
\* similarity search succeeds; then no record changes status either.
C4_Idempotence ==
    \A p \in Procs :
        ( /\ FactDone(p)
          /\ Cardinality(SameContentAtGate(p)) = 1
          /\ ~IsZeroVector(loc[p].embedding)
          /\ ~Failed(p, "gate") ) =>
            /\ loc[p].gate.is_duplicate
            /\ loc[p].gate.memory_id \in SameContentAtGate(p)
            /\ RatGE(loc[p].gate.similarity, SIMILARITY_THRESHOLD)
            /\ loc[p].created = NO_ID
            /\ ~loc[p].marked
            /\ Cardinality(ActiveWithContentOf(p)) = 1

\* C4 witness: a second ingestion of a fact the owner holds once has finished
\* with the gate reporting a duplicate
C4_Witness ==
    \E p \in Procs :
        /\ ChatDone(p)
        /\ loc[p].gate.is_duplicate
        /\ loc[p].content \in FactTexts
        /\ Cardinality(SameContentAtGate(p)) = 1
        /\ Cardinality(ActiveWithContentOf(p)) = 1

-----------------------------------------------------------------------------
(* C6 *)

\* C6: every step leaves every existing row in place and unchanged, except
\* that it may flip the row's status from active to outdated.
C6_Lifecycle ==
    [][\A i \in DOMAIN store :
          /\ i \in DOMAIN store'
          /\ \/ store'[i] = store[i]
             \/ /\ store[i].status = "active"
                /\ store'[i] = [store[i] EXCEPT !.status = "outdated"]]_vars

\* C6 witness: a record was made outdated and a later record was stored
C6_Witness ==
    \E i \in DOMAIN store : Outdated(i) /\ Len(store) > i

-----------------------------------------------------------------------------
(* C8 *)

\* C8 (as claimed): when every candidate was put to the adjudicator and none
\* of its answers means yes, the resolver reports no conflict.
C8_AsClaimed ==
    \A p \in Procs :
        ( /\ DetectInView(p)
          /\ Len(loc[p].detect.asked) = Len(loc[p].detect.candidates)
          /\ \A m \in DOMAIN loc[p].detect.asked :
                ~loc[p].detect.asked[m].means_yes ) =>
            /\ ~loc[p].detect.is_conflict
            /\ pc[p] = "insert"

-----------------------------------------------------------------------------
(* C9 *)

ResolverFailures == {"detect", "adjudicate", "mark"}

-----------------------------------------------------------------------------
(* C10 *)

\* C10: for blank content or a zero-vector embedding, whatever the store
\* holds, neither the gate nor the resolver queries the similarity index, the
\* gate says not-duplicate, the resolver says no conflict, and no row changes
\* status.
C10_ZeroVector ==
    \A p \in Procs :
        ( /\ pc[p] # "idle"
          /\ (IsBlank(loc[p].content) \/ loc[p].embedding = ZeroVector) ) =>
            /\ ~loc[p].gate.queried
            /\ ~loc[p].gate.is_duplicate
            /\ loc[p].gate.memory_id = NO_ID
            /\ ~loc[p].detect.queried
            /\ ~loc[p].detect.is_conflict
            /\ pc[p] # "mark"
            /\ ~loc[p].marked
            /\ loc[p].conflict_info = NO_ID

\* C10 witness: an ingestion whose embedding is the zero vector has passed gate
\* and resolver while its owner holds a searchable record with the very same
\* content
C10_Witness ==
    \E p \in Procs :
        /\ pc[p] = "insert"
        /\ loc[p].embedding = ZeroVector
        /\ \E i \in Searchable(store, loc[p].target_id) :
              store[i].content = loc[p].content

-----------------------------------------------------------------------------
(* C5, C7 *)

\* the ranker has just returned to p
RankInView(p) == pc[p] = "done" /\ loc[p].kind = "rank"

\* the gate has just returned to p
GateInView(p) ==
    /\ loc[p].gate.queried
    /\ \/ pc[p] = "detect"
       \/ pc[p] = "done" /\ loc[p].gate.is_duplicate

\* ids of the stored records among the items the ranker returned to p
RankedIds(p) ==
    {loc[p].retrieved.items[m].id : m \in DOMAIN loc[p].retrieved.items}
        \ {NO_ID}

\* C5: no outdated record is among the items the ranker returns (vector path
\* or keyword fallback), is the row the gate compares with, or is a candidate
\* of the resolver.
C5_OutdatedExclusion ==
    \A p \in Procs :
        /\ RankInView(p) => \A i \in RankedIds(p) : Active(i)
        /\ GateInView(p) =>
              (loc[p].gate.row_id # NO_ID => Active(loc[p].gate.row_id))
        /\ DetectInView(p) =>
              \A m \in DOMAIN loc[p].detect.candidates :
                  Active(loc[p].detect.candidates[m])

\* the ranker returns records to a query that an outdated record of the owner
\* matches word for word
C5_Witness ==
    \E p \in Procs :
        /\ RankInView(p)
        /\ loc[p].retrieved.path = "vector"
        /\ RankedIds(p) # {}
        /\ \E i \in DOMAIN store :
              /\ Outdated(i)
              /\ store[i].target_id = loc[p].target_id
              /\ store[i].content = loc[p].content

\* the store as owner sees it: the rows of the other owners blanked out
OwnerView(s, owner) ==
    [i \in DOMAIN s |->
        IF s[i].target_id = owner THEN s[i]
        ELSE [s[i] EXCEPT !.content = NULL_CONTENT,
                          !.embedding = NULL_EMBEDDING,
                          !.status = "outdated"]]

\* C7: what the ranker returns, the row the gate compares with, the candidates
\* and the superseded record of the resolver all belong to the caller's owner;
\* gate and resolver results are those the owner's rows alone would give; and
\* a step changes the status of a row only for a request of the row's owner.
C7_OwnerIsolation ==
    /\ [](\A p \in Procs :
            /\ RankInView(p) =>
                  \A i \in RankedIds(p) : store[i].target_id = loc[p].target_id
            /\ GateInView(p) =>
                  /\ loc[p].gate.row_id # NO_ID =>
                        store[loc[p].gate.row_id].target_id = loc[p].target_id
                  /\ ~Failed(p, "gate") =>
                        loc[p].gate \in
                            check_duplicate_memory(
                                OwnerView(store, loc[p].target_id),
                                loc[p].target_id, loc[p].content,
                                loc[p].embedding, TRUE)
            /\ DetectInView(p) =>
                  /\ \A m \in DOMAIN loc[p].detect.candidates :
                        store[loc[p].detect.candidates[m]].target_id
                            = loc[p].target_id
                  /\ loc[p].detect.memory_id # NO_ID =>
                        store[loc[p].detect.memory_id].target_id
                            = loc[p].target_id
                  /\ ~Failed(p, "detect") =>
                        loc[p].detect.candidates \in
                            CandidateLists(OwnerView(store, loc[p].target_id),
                                           loc[p].target_id, loc[p].embedding,
                                           CONFLICT_SIMILARITY_THRESHOLD))
    /\ [][\A i \in DOMAIN store :
            store'[i].status # store[i].status =>
                \E p \in Procs :
                    /\ pc[p] = "mark"
                    /\ loc[p].target_id = store[i].target_id]_vars

\* a request of one owner is answered while another owner holds an active
\* record that matches it word for word
C7_Witness ==
    \E p \in Procs :
        /\ \/ RankInView(p) /\ RankedIds(p) # {}
           \/ GateInView(p) /\ loc[p].gate.row_id # NO_ID
        /\ \E i \in DOMAIN store :
              /\ Active(i)
              /\ store[i].target_id # loc[p].target_id
              /\ store[i].content = loc[p].content

-----------------------------------------------------------------------------
(* C2, C3 *)

\* C2 (as claimed): no two active records of one owner have similarity at or
\* above the dedup threshold.
C2_AsClaimed ==
    \A i, j \in DOMAIN store :
        ( /\ i # j
          /\ Active(i) /\ Active(j)
          /\ store[i].target_id = store[j].target_id
          /\ store[i].embedding # NULL_EMBEDDING
          /\ store[j].embedding # NULL_EMBEDDING ) =>
            ~RatGE(Similarity(store[i].embedding, store[j].embedding),
                   SIMILARITY_THRESHOLD)

\* C3 (as claimed): a record referenced by replaced_memory_id is outdated, was
\* made outdated by the ingestion that created the referencing record, and is
\* referenced by no other record.
C3_AsClaimed ==
    \A r \in DOMAIN store :
        store[r].replaced_memory_id # NO_ID =>
            /\ store[r].replaced_memory_id \in DOMAIN store
            /\ Outdated(store[r].replaced_memory_id)
            /\ store[r].caused
            /\ \A q \in DOMAIN store :
                  q # r => store[q].replaced_memory_id
                              # store[r].replaced_memory_id

\* C3 (ingestions that do not overlap): a record referenced by
\* replaced_memory_id is an outdated record of the same owner; and if the
\* ingestion that created the referencing record ran while no other ingestion
\* was in flight, that ingestion made it outdated and no other record
\* references it.
C3_References ==
    \A r \in DOMAIN store :
        store[r].replaced_memory_id # NO_ID =>
            /\ store[r].replaced_memory_id \in DOMAIN store
            /\ store[r].replaced_memory_id < r
            /\ Outdated(store[r].replaced_memory_id)
            /\ store[store[r].replaced_memory_id].target_id
                  = store[r].target_id
            /\ ~store[r].overlapped =>
                  /\ store[r].caused
                  /\ \A q \in DOMAIN store :
                        q # r => store[q].replaced_memory_id
                                    # store[r].replaced_memory_id

\* a record that superseded another in an ingestion that ran alone, stored
\* while a later ingestion is in flight
C3_Witness ==
    /\ \E r \in DOMAIN store :
          /\ store[r].replaced_memory_id # NO_ID
          /\ ~store[r].overlapped
    /\ InFlight # {}

-----------------------------------------------------------------------------
(* C11, C12 *)

\* the gate ran its search for p and the search succeeded
GateSearched(p) == GateInView(p) /\ ~Failed(p, "gate")

\* C11: after a successful search for a non-zero embedding the gate reports
\* duplicate exactly when some searchable record of the owner (active, with
\* embedding and content) has similarity >= 0.92, which is when the nearest
\* one has; the record it reports is a nearest one; with no searchable record
\* it reports not-duplicate.
C11_DedupDecision ==
    \A p \in Procs :
        (GateSearched(p) /\ ~IsZeroVector(loc[p].embedding)) =>
            LET S == Searchable(store, loc[p].target_id)
                q == loc[p].embedding
            IN  /\ loc[p].gate.is_duplicate <=>
                      \E i \in S : RatGE(SimTo(store, i, q),
                                         SIMILARITY_THRESHOLD)
                /\ loc[p].gate.is_duplicate =>
                      /\ loc[p].gate.memory_id \in S
                      /\ \A j \in S :
                            RatGE(SimTo(store, loc[p].gate.memory_id, q),
                                  SimTo(store, j, q))
                /\ S = {} => ~loc[p].gate.is_duplicate

\* C11 witness: the gate reports a duplicate whose similarity is exactly the
\* threshold
C11_Witness ==
    \E p \in Procs :
        /\ GateSearched(p)
        /\ loc[p].gate.is_duplicate
        /\ RatGE(SIMILARITY_THRESHOLD, loc[p].gate.similarity)

\* C12 (as claimed): whenever the gate found a nearest record, its result
\* carries that record's id and similarity, whatever the verdict.
C12_AsClaimed ==
    \A p \in Procs :
        (GateSearched(p) /\ loc[p].gate.row_id # NO_ID) =>
            /\ loc[p].gate.memory_id = loc[p].gate.row_id
            /\ loc[p].gate.similarity
                  = SimTo(store, loc[p].gate.row_id, loc[p].embedding)

\* C12 (amended): whenever the gate found a nearest record, its result carries
\* that record's similarity whatever the verdict, and the record's id when
\* the verdict is duplicate; with the verdict not-duplicate the id is None.
C12_Observability ==
    \A p \in Procs :
        (GateSearched(p) /\ loc[p].gate.row_id # NO_ID) =>
            /\ loc[p].gate.similarity
                  = SimTo(store, loc[p].gate.row_id, loc[p].embedding)
            /\ loc[p].gate.memory_id =
                  IF loc[p].gate.is_duplicate THEN loc[p].gate.row_id
                  ELSE NO_ID

\* C12 witness: the gate found a nearest record below the threshold
C12_Witness ==
    \E p \in Procs :
        /\ GateSearched(p)
        /\ loc[p].gate.row_id # NO_ID
        /\ ~loc[p].gate.is_duplicate
        /\ loc[p].gate.similarity # NONE_SIM

-----------------------------------------------------------------------------
(* C13, C14, C15: the orchestrator *)

\* the run's ROUTE stage has returned and its classifier output is in view
RouteInView(p) == loc[p].run.trace = <<"route">>

\* the classifier call succeeded and its parsed output names memory_rag
SaidMemoryRag(out) ==
    /\ out.ok
    /\ out.json = "object"
    /\ "route" \in out.keys
    /\ out.route = "memory_rag"

\* C13 (as claimed): no orchestrator run, blocking or streaming, ends with an
\* exception, whichever of its external calls or the rendering of the prompt
\* template fails.
C13_AsClaimed ==
    \A p \in Procs : pc[p] # "raised" /\ loc[p].run.raised = "none"

\* the stages of a run in their order, given the router's decision
StagesOf(route_decision) ==
    IF route_decision = "memory_rag"
    THEN <<"route", "retrieve", "generate", "extract">>
    ELSE <<"route", "generate", "extract">>

\* C14: in every orchestrator run ROUTE is the first stage and GENERATE comes
\* after it, the ranker runs between them exactly when the router decided
\* memory_rag, and on the other decision the generation stage is handed no
\* retrieved memory.
C14_RouteGatedRetrieval ==
    \A p \in Procs :
        LET run == loc[p].run
        IN  /\ run.trace = Prefix(StagesOf(run.route_decision), Len(run.trace))
            /\ run.route_decision # "memory_rag" =>
                  /\ loc[p].retrieved = NoRetrieval
                  /\ run.context = << >>

\* C14 witness: a run generated on the route mentor_chat while its owner had
\* an active record that shares a word with the message
C14_Witness ==
    \E p \in Procs :
        /\ loc[p].run.trace = <<"route", "generate">>
        /\ loc[p].run.route_decision = "mentor_chat"
        /\ loc[p].run.generation = REPLY
        /\ \E i \in Searchable(store, loc[p].target_id) :
              Hits(loc[p].content, store[i].content) > 0

\* C15: the router decides memory_rag only when the classifier call succeeded
\* and its parsed output names exactly memory_rag; on a call error, an
\* unparsable output, a missing or an invalid route it decides mentor_chat,
\* and in no case does the run end with an exception there.
C15_RouterDefault ==
    \A p \in Procs :
        RouteInView(p) =>
            LET out == loc[p].run.classifier
            IN  /\ pc[p] \in {"retrieve", "generate"}
                /\ loc[p].run.raised = "none"
                /\ loc[p].run.route_decision \in {"mentor_chat", "memory_rag"}
                /\ loc[p].run.route_decision = "memory_rag" =>
                      SaidMemoryRag(out)
                /\ pc[p] = "retrieve" => SaidMemoryRag(out)

\* C15 witness: the classifier answered with an object whose route is not
\* one of the two categories, and the router decided mentor_chat
C15_Witness ==
    \E p \in Procs :
        /\ RouteInView(p)
        /\ loc[p].run.classifier.json = "object"
        /\ "route" \in loc[p].run.classifier.keys
        /\ loc[p].run.classifier.route \notin {"mentor_chat", "memory_rag"}
        /\ loc[p].run.route_decision = "mentor_chat"
        /\ pc[p] = "generate"

-----------------------------------------------------------------------------
(* C16, C17, C18, C19: the rankers *)

\* a ranker has returned a ranked list to p
ShapeInView(p) ==
    /\ RankInView(p)
    /\ loc[p].retrieved.path \in {"vector", "keyword", "context"}

Count(seq, x) == Cardinality({m \in DOMAIN seq : seq[m] = x})

\* C16: whatever the store, the query, the corpus and max_memories >= 0, a
\* ranker (vector path, keyword fallback, get_chat_context) returns at most
\* max_memories items, in non-increasing order of relevance_score, and they
\* are the highest-scoring ones of the kept memory candidates and corpus
\* entries taken together.
C16_ResultShape ==
    \A p \in Procs :
        ShapeInView(p) =>
            LET items  == loc[p].retrieved.items
                scored == loc[p].retrieved.scored
                k      == loc[p].ranking.config.max_memories
            IN  /\ Len(items) <= k
                /\ Len(items) = Min(k, Len(scored))
                /\ \A m, n \in DOMAIN items : m < n =>
                      RatGE(items[m].relevance_score, items[n].relevance_score)
                /\ \A x \in Range(items) : Count(items, x) <= Count(scored, x)
                /\ \A x \in Range(scored) :
                      \/ Count(items, x) = Count(scored, x)
                      \/ \A m \in DOMAIN items :
                            RatGE(items[m].relevance_score, x.relevance_score)

\* C16 witness: a ranker kept more candidates than it returned, among them a
\* memory scored below a corpus entry that follows it in scored_memories
C16_Witness ==
    \E p \in Procs :
        /\ ShapeInView(p)
        /\ Len(loc[p].retrieved.scored) > Len(loc[p].retrieved.items)
        /\ loc[p].retrieved.items # << >>
        /\ \E m, n \in DOMAIN loc[p].retrieved.scored :
              /\ m < n
              /\ ~RatGE(loc[p].retrieved.scored[m].relevance_score,
                        loc[p].retrieved.scored[n].relevance_score)
              /\ loc[p].retrieved.scored[m].source_type = "memory"
              /\ loc[p].retrieved.scored[n].source_type = "corpus"

\* ids of the stored records among the candidates the ranker kept
KeptIds(p) ==
    {loc[p].retrieved.scored[m].id : m \in
        {n \in DOMAIN loc[p].retrieved.scored :
            loc[p].retrieved.scored[n].source_type = "memory"}}

\* similarity * 0.8 + 0.2 / (1 + days_ago * time_decay_factor) of row i for
\* the query of p
FinalScoreOf(p, i) ==
    LET decay == loc[p].ranking.config.time_decay_factor
        days  == loc[p].ranking.days_ago[i]
    IN  RatAdd(RatMul(SimTo(store, i, loc[p].ranking.query), <<8, 10>>),
               RatMul(<<decay[2], decay[2] + days * decay[1]>>, <<2, 10>>))

\* C17: on the vector path a fetched record is kept if and only if its
\* similarity is at least 0.5 and its final_score, similarity * 0.8 +
\* time_factor * 0.2 with time_factor = 1 / (1 + days_ago * time_decay_factor),
\* is at least min_relevance_score (equality included); a kept record carries
\* that final_score, and the returned records are in its order.
C17_InclusionRule ==
    \A p \in Procs :
        (RankInView(p) /\ loc[p].retrieved.path = "vector") =>
            LET r   == loc[p].retrieved
                min == loc[p].ranking.config.min_relevance_score
            IN  /\ KeptIds(p) =
                      {i \in Range(r.rows) :
                          /\ RatGE(SimTo(store, i, loc[p].ranking.query),
                                   <<1, 2>>)
                          /\ RatGE(FinalScoreOf(p, i), min)}
                /\ \A m \in DOMAIN r.scored :
                      r.scored[m].source_type = "memory" =>
                          r.scored[m].relevance_score
                              = FinalScoreOf(p, r.scored[m].id)
                /\ \A m, n \in DOMAIN r.items :
                      (/\ m < n
                       /\ r.items[m].source_type = "memory"
                       /\ r.items[n].source_type = "memory") =>
                          RatGE(FinalScoreOf(p, r.items[m].id),
                                FinalScoreOf(p, r.items[n].id))

\* C17 witness: the vector path kept a record whose final_score equals
\* min_relevance_score, and dropped a fetched record
C17_Witness ==
    \E p \in Procs :
        /\ RankInView(p)
        /\ loc[p].retrieved.path = "vector"
        /\ \E i \in KeptIds(p) :
              FinalScoreOf(p, i) = loc[p].ranking.config.min_relevance_score
        /\ \E i \in Range(loc[p].retrieved.rows) : i \notin KeptIds(p)

RatEq(r, q) == RatGE(r, q) /\ RatGE(q, r)

\* the corpus entries among the candidates the ranker kept
KeptCorpus(p) ==
    LET IsCorpus(x) == x.source_type = "corpus"
    IN  SelectSeq(loc[p].retrieved.scored, IsCorpus)

\* the score of a corpus entry for the query of p, at `weight` a hit
EntryScore(p, content, weight) ==
    LET hits == Cardinality({kw \in Tokens(Lower(loc[p].content)) :
                                Contains(kw, Lower(content))})
    IN  IF hits > 0 THEN <<hits * weight[1], weight[2]>> ELSE <<5, 100>>

\* the weight of a hit: 0.3 in the orchestrator's ranker, 0.5 in
\* get_chat_context
HitWeight(p) ==
    IF loc[p].retrieved.path = "context" THEN <<5, 10>> ELSE <<3, 10>>

\* C18 (as claimed): every corpus entry with content is among the kept
\* candidates, whatever min_relevance_score, scored 0.3 a hit or a flat 0.05.
C18_AsClaimed ==
    \A p \in Procs :
        ShapeInView(p) =>
            LET HasContent(c) == c # EMPTY_TEXT
                entries == SelectSeq(loc[p].ranking.corpus, HasContent)
                kept    == KeptCorpus(p)
            IN  /\ Len(kept) = Len(entries)
                /\ \A m \in DOMAIN kept :
                      /\ kept[m].content = entries[m]
                      /\ RatEq(kept[m].relevance_score,
                               EntryScore(p, entries[m], <<3, 10>>))

\* C18 (amended): every corpus entry with content is scored 0.3 a hit (0.5 in
\* get_chat_context) or a flat 0.05 when no query token occurs in it, and it
\* is among the kept candidates if and only if that score is at least
\* min_relevance_score.
C18_CorpusScoring ==
    \A p \in Procs :
        ShapeInView(p) =>
            LET min == loc[p].ranking.config.min_relevance_score
                Passes(c) ==
                    /\ c # EMPTY_TEXT
                    /\ RatGE(EntryScore(p, c, HitWeight(p)), min)
                entries == SelectSeq(loc[p].ranking.corpus, Passes)
                kept    == KeptCorpus(p)
            IN  /\ Len(kept) = Len(entries)
                /\ \A m \in DOMAIN kept :
                      /\ kept[m].content = entries[m]
                      /\ RatEq(kept[m].relevance_score,
                               EntryScore(p, entries[m], HitWeight(p)))

\* C18 witness: of two corpus entries with content the orchestrator's ranker
\* kept the one with two hits and dropped the one with a single hit
C18_Witness ==
    \E p \in Procs :
        /\ ShapeInView(p)
        /\ loc[p].retrieved.path = "vector"
        /\ Len(KeptCorpus(p)) = 1
        /\ KeptCorpus(p)[1].relevance_score = <<3, 5>>
        /\ \E m \in DOMAIN loc[p].ranking.corpus :
              /\ loc[p].ranking.corpus[m] # EMPTY_TEXT
              /\ EntryScore(p, loc[p].ranking.corpus[m], <<3, 10>>) = <<3, 10>>

\* the vector search of p's ranker call raised
VectorRaised(p) == RankInView(p) /\ Failed(p, "vector")

\* the fields of a retrieved item
ItemFields == {"id", "content", "source_type", "relevance_score"}

\* the active records of p's owner in which a token of the query occurs
HitRecords(p) ==
    {i \in DOMAIN store :
        /\ store[i].target_id = loc[p].target_id
        /\ store[i].status = "active"
        /\ store[i].content # NULL_CONTENT
        /\ \E kw \in Tokens(Lower(loc[p].content)) :
              Contains(kw, Lower(store[i].content))}

HitScoreOf(p, i) ==
    LET decay == loc[p].ranking.config.time_decay_factor
        hits  == Cardinality({kw \in Tokens(Lower(loc[p].content)) :
                                 Contains(kw, Lower(store[i].content))})
    IN  <<hits * decay[2], decay[2] + loc[p].ranking.days_ago[i] * decay[1]>>

-----------------------------------------------------------------------------
(* C20: what an ingestion stores as a record's embedding *)

\* every component of the vector is zero
AllZero(e) == e # NULL_EMBEDDING /\ \A k \in DOMAIN e.nz : e.nz[k] = 0

-----------------------------------------------------------------------------
(* C21: the embedding provider degrades to the zero vector *)

\* get_embedding has returned to p
EmbedInView(p) == pc[p] = "done" /\ loc[p].kind = "embed"

-----------------------------------------------------------------------------
(* C22: two ingestions of one owner that overlap *)

\* two stored records of one owner that reference the same superseded record
BothSupersede(r, q) ==
    /\ r # q
    /\ store[r].target_id = store[q].target_id
    /\ store[r].replaced_memory_id # NO_ID
    /\ store[r].replaced_memory_id = store[q].replaced_memory_id

\* two active records of one owner with the same content
BothInserted(r, q) ==
    /\ r # q
    /\ store[r].target_id = store[q].target_id
    /\ Active(r) /\ Active(q)
    /\ store[r].content = store[q].content

\* C22: two ingestions of one owner that run concurrently can both supersede
\* the same record and can both insert their record, neither having seen the
\* write of the other; with every call succeeding, two records that reference
\* the same superseded record, or two active records with the same content,
\* come only from ingestions that overlapped.
C22_RaceOnly ==
    \A r, q \in DOMAIN store :
        (BothSupersede(r, q) \/ BothInserted(r, q)) =>
            store[r].overlapped /\ store[q].overlapped

\* C22 witness: two overlapping ingestions have both superseded the record A,
\* only one of them having made it outdated, and both inserted the same fact
C22_Witness ==
    \E r, q \in DOMAIN store :
        /\ BothSupersede(r, q)
        /\ BothInserted(r, q)
        /\ Outdated(store[r].replaced_memory_id)
        /\ store[r].caused # store[q].caused

-----------------------------------------------------------------------------
(* C23: first match wins *)

\* the rows the resolver's search matches: searchable rows of the owner whose
\* similarity to the new fact reaches the conflict threshold
Matching(s, owner, q) ==
    {i \in Searchable(s, owner) :
        RatGE(SimTo(s, i, q), CONFLICT_SIMILARITY_THRESHOLD)}

\* the candidate list of a call that has just searched store s: at most
\* CANDIDATE_LIMIT distinct matching rows, nearest first, none nearer left out
FetchedInRank(s, owner, q, c) ==
    /\ Len(c) <= CANDIDATE_LIMIT
    /\ \A m \in DOMAIN c : c[m] \in Matching(s, owner, q)
    /\ \A m, n \in DOMAIN c : m < n =>
          /\ c[m] # c[n]
          /\ RatGE(SimTo(s, c[m], q), SimTo(s, c[n], q))
    /\ \A j \in Matching(s, owner, q) \ Range(c) :
          /\ Len(c) = CANDIDATE_LIMIT
          /\ \A m \in DOMAIN c : RatGE(SimTo(s, c[m], q), SimTo(s, j, q))

\* the adjudicator was asked about a prefix of the list, and only the last
\* answer can be one the resolver takes for yes
AskedInRank(d, searched) ==
    /\ Len(d.asked) <= Len(d.candidates)
    /\ \A m \in DOMAIN d.asked :
          m < Len(d.asked) => ~check_conflict_with_llm(d.asked[m])
    /\ IF d.is_conflict
       THEN /\ d.asked # << >>
            /\ check_conflict_with_llm(d.asked[Len(d.asked)])
            /\ d.memory_id = d.candidates[Len(d.asked)]
       ELSE /\ d.memory_id = NO_ID
            /\ \A m \in DOMAIN d.asked : ~check_conflict_with_llm(d.asked[m])
            /\ searched => Len(d.asked) = Len(d.candidates)

\* the call's search ran: the arguments passed the blank and zero-vector
\* checks and db.execute did not raise
Searched(p) == loc[p].detect.queried /\ "detect" \notin loc[p].failed

\* detect_conflicting_memory has returned to handle_memory_conflict, which
\* has not yet marked anything: the store is the one the call searched
DetectReturned(p) ==
    \/ pc[p] = "mark"
    \/ pc[p] = "insert" /\ ~loc[p].detect.is_conflict

-----------------------------------------------------------------------------
(* C24: heuristic-gated extraction *)

\* the user message of the run holds one of the event-reporting keywords
ReportsEvent(p) ==
    \E keyword \in FACT_KEYWORDS : Contains(keyword, loc[p].run.user_message)

\* the run has reached GENERATE
Generated(p) == \E m \in DOMAIN loc[p].run.trace : loc[p].run.trace[m] = "generate"

\* the run goes on to EXTRACT or has run it
Extracts(p) ==
    \/ pc[p] = "extract"
    \/ \E m \in DOMAIN loc[p].run.trace : loc[p].run.trace[m] = "extract"

\* the run has ended without an exception
RunEnded(p) == Generated(p) /\ pc[p] = "done"

-----------------------------------------------------------------------------
(* C25: a duplicate leaves the store unchanged *)

\* the gate has just reported the fact p is ingesting a duplicate
ReportedDuplicate(p) == loc[p].gate.is_duplicate

\* C25. Duplicate leaves the store unchanged: the call of the gate changes no
\* record; when it reports duplicate, the ingestion of that fact goes no
\* further: the resolver is not called, the fact is neither inserted nor
\* added to the session, and a chat ingestion ends without any change of the
\* store.
C25_DuplicateDropped ==
    [][\A p \in Procs :
          /\ (pc[p] = "gate" /\ pc'[p] # "gate") =>
                /\ store' = store
                /\ ReportedDuplicate(p)' =>
                      /\ pc'[p] \in {"done", "next", "commit"}
                      /\ loc'[p].detect = loc[p].detect
                      /\ ~loc'[p].detect.queried
                      /\ loc'[p].conflict_info = NO_ID
                      /\ loc'[p].pending = loc[p].pending
                      /\ loc'[p].memories_created = loc[p].memories_created
                      /\ loc'[p].created = NO_ID
          /\ (Chat(p) /\ ReportedDuplicate(p)) =>
                /\ store' = store
                /\ pc'[p] \in {"done", "idle"}]_vars

\* C25 witness: an upload holds an added memory in its session when the gate
\* reports its next memory a duplicate of an active record
C25_Witness ==
    \E p \in Procs :
        /\ loc[p].kind = "upload"
        /\ pc[p] = "next"
        /\ ReportedDuplicate(p)
        /\ loc[p].pending # << >>
        /\ loc[p].gate.memory_id \in DOMAIN store
        /\ Active(loc[p].gate.memory_id)

-----------------------------------------------------------------------------
(* C26: the ranker and the zero vector *)

\* the ranker ran its vector search with p's query: the search either
\* produced the result or raised
VectorSearched(p) ==
    \/ loc[p].retrieved.path = "vector"
    \/ "vector" \in loc[p].failed

\* C26 (as claimed): when the embedding of the query is the zero vector, the
\* ranker notices it before any similarity computation and issues no
\* similarity search with it; the stored memories are then ranked by the
\* keyword path or reported as no match.
C26_AsClaimed ==
    \A p \in Procs :
        (/\ RankInView(p)
         /\ loc[p].ranking.config.enabled
         /\ IsZeroVector(loc[p].ranking.query)) =>
            /\ ~VectorSearched(p)
            /\ loc[p].retrieved.path \in {"keyword", "failed", "none"}

-----------------------------------------------------------------------------
(* C27: supersession atomicity *)

\* the committed active records that reference record a as the one they
\* replaced
Superseders(a) ==
    {i \in DOMAIN store : Active(i) /\ store[i].replaced_memory_id = a}

\* C27 (as claimed): whenever an ingestion has transitioned a record A to
\* outdated, it ends with a new committed active record that carries
\* replaced_memory_id = A, whatever the outcome of the insert and the commit
\* that follow the transition.
C27_AsClaimed ==
    \A p \in Procs :
        (pc[p] = "done" /\ loc[p].marked) =>
            /\ Outdated(loc[p].conflict_info)
            /\ Superseders(loc[p].conflict_info) # {}

-----------------------------------------------------------------------------
(* C28: the conflict window *)

\* p's fact has passed the gate and the store is still the one the gate saw
PastGate(p) ==
    /\ loc[p].kind \in {"chat", "upload"}
    /\ pc[p] = "detect" \/ DetectReturned(p)
    /\ ~IsBlank(loc[p].content)
    /\ ~IsZeroVector(loc[p].embedding)

\* similarity of the stored record i to the fact p is ingesting
SimOf(p, i) == SimTo(store, i, loc[p].embedding)

InWindow(sim) ==
    /\ RatGE(sim, CONFLICT_SIMILARITY_THRESHOLD)
    /\ ~RatGE(sim, SIMILARITY_THRESHOLD)

\* the candidates p's resolver call asked the adjudicator about
Adjudicated(p) ==
    {loc[p].detect.candidates[m] : m \in DOMAIN loc[p].detect.asked}

\* C28 (as claimed): in a sequential ingestion every candidate the resolver
\* adjudicates has similarity in [0.75, 0.92) to the new fact, and a fact
\* whose nearest active record has similarity >= 0.92 does not get past the
\* gate.
C28_AsClaimed ==
    \A p \in Procs :
        PastGate(p) =>
            /\ \A i \in Searchable(store, loc[p].target_id) :
                  ~RatGE(SimOf(p, i), SIMILARITY_THRESHOLD)
            /\ DetectReturned(p) =>
                  \A i \in Adjudicated(p) : InWindow(SimOf(p, i))

\* C28. Conflict window: in a sequential ingestion whose gate search did not
\* fail, every candidate the resolver adjudicates has similarity in
\* [0.75, 0.92) to the new fact, and a fact whose nearest active record has
\* similarity >= 0.92 does not get past the gate, so it supersedes nothing.
C28_ConflictWindow ==
    \A p \in Procs :
        (PastGate(p) /\ ~Failed(p, "gate")) =>
            /\ \A i \in Searchable(store, loc[p].target_id) :
                  ~RatGE(SimOf(p, i), SIMILARITY_THRESHOLD)
            /\ DetectReturned(p) =>
                  \A i \in Adjudicated(p) : InWindow(SimOf(p, i))

\* C28 witness: the gate's search succeeded and the resolver asked about two
\* candidates of different similarity before it settled on the second
C28_Witness ==
    \E p \in Procs :
        /\ PastGate(p)
        /\ ~Failed(p, "gate")
        /\ pc[p] = "mark"
        /\ Len(loc[p].detect.asked) = 2
        /\ SimOf(p, loc[p].detect.candidates[1])
              # SimOf(p, loc[p].detect.candidates[2])

-----------------------------------------------------------------------------
(* C29: intra-batch dedup *)

\* the records an upload that has returned without a failure has stored: its
\* requests run one after the other, so they are the last memories_created
\* rows of the table
StoredBy(p) ==
    (Len(store) - loc[p].memories_created + 1)..Len(store)

\* C29 (as claimed): the fingerprint check and the gate of a later memory of
\* an upload take the memories added earlier in the same request into
\* account, so no two records stored by one upload carry the same fingerprint
\* hash or the same content.
C29_AsClaimed ==
    \A p \in Procs :
        (loc[p].kind = "upload" /\ pc[p] = "done" /\ loc[p].failed = {}) =>
            \A i, j \in StoredBy(p) :
                i # j =>
                    /\ store[i].content # store[j].content
                    /\ \/ store[i].content_hash = NO_HASH
                       \/ store[i].content_hash # store[j].content_hash

-----------------------------------------------------------------------------
(* C30: upload accounting *)

\* the upload has returned its response: no exception left the request
Responded(p) ==
    /\ loc[p].kind = "upload"
    /\ pc[p] = "done"
    /\ ~Failed(p, "hash")
    /\ ~Failed(p, "commit")

\* the number of records the request has written to the table (the requests
\* run one after the other, so the table grew by its records only)
Persisted(p) == Len(store) - loc[p].stored_before

\* C30 (as claimed): the memories_created count an upload returns equals the
\* number of records the request persisted, whatever the outcome of the
\* commits and rollbacks that conflict resolution performed on the session
\* during the request.
C30_AsClaimed ==
    \A p \in Procs : Responded(p) => loc[p].memories_created = Persisted(p)

=============================================================================
